---------------------------- MODULE Spec2Model ----------------------------
(***************************************************************************)
(* Model of the retrieval / answer-refinement core of First-RAG-Agent:     *)
(*   - core/history.py          the in-memory session history store        *)
(*   - core/langgraph_agent.py  the AnswerLoop graph (classify, retrieve,  *)
(*                              generate, grade, rewrite) and its driver   *)
(*   - core/rag_builder.py      the incremental index build, the chunker   *)
(*   - core/tools/rag_search.py the hybrid search tool                     *)
(*   - core/agent.py            the tool-calling turn (run_agent)          *)
(***************************************************************************)
EXTENDS Integers, Sequences, FiniteSets, TLC

(***************************************************************************)
(* Bounds of the model.                                                    *)
(***************************************************************************)
MaxTurns == 2          \* question turns started in one behaviour
MaxBuilds == 2         \* build invocations started in one behaviour
MaxTokens == 1000      \* longest token sequence handed to the chunker
MaxChunkSize == 4      \* largest of the small chunk sizes tried

(***************************************************************************)
(* Program constants.                                                      *)
(***************************************************************************)
MAX_CONVERSATION_HISTORY_MESSAGES == 20
CHUNK_SIZE == 512
CHUNK_OVERLAP == 50

None == "None"

(***************************************************************************)
(* Small helpers over Python values.                                       *)
(***************************************************************************)
\* dict.get(key, default)
Get(d, key, default) == IF key \in DOMAIN d THEN d[key] ELSE default

\* LangGraph state update of a TypedDict without reducers: every key a node
\* returns overwrites the key of the state, the other keys are kept.
Merge(s, u) ==
    [k \in (DOMAIN s) \cup (DOMAIN u) |-> IF k \in DOMAIN u THEN u[k] ELSE s[k]]

\* variant: lst[:n]
LastN_head(lst, n) ==
    IF Len(lst) <= n THEN lst ELSE SubSeq(lst, 1, n)

\* lst[-n:]
LastN(lst, n) ==
    IF Len(lst) <= n THEN lst ELSE SubSeq(lst, Len(lst) - n + 1, Len(lst))

\* str.lower() on the characters the collaborator replies are made of
LowerChar(c) ==
    CASE c = "Y" -> "y"
      [] c = "E" -> "e"
      [] c = "S" -> "s"
      [] c = "N" -> "n"
      [] c = "O" -> "o"
      [] OTHER -> c

Lower(s) == [i \in 1..Len(s) |-> LowerChar(s[i])]

\* sub in s
Contains(sub, s) ==
    \E i \in 0..(Len(s) - Len(sub)) :
        \A j \in 1..Len(sub) : s[i + j] = sub[j]

\* a call that returned value, and a call that ended with an exception
Returned(value) == [raised |-> FALSE, value |-> value]

Raised == [raised |-> TRUE, value |-> << >>]

(***************************************************************************)
(* Values the external collaborators can hand back.                        *)
(***************************************************************************)
SessionIds == {"s1"}
UserQueries == {"q1"}
RewriteReplies == {"r1", "q1"}
Evidence == {"e1", "e2"}
Answers == {"a1", "a2"}
\* judge / classifier replies, as character sequences
JudgeReplies ==
    { <<"y", "e", "s">>, <<"Y", "E", "S", ".">>, <<"n", "o">>,
      <<"N", "o", ".">>, <<"?">> }

Slots == {1}

VARIABLES
    chat_histories,   \* history.py:  _chat_histories
    pc,               \* per task: the graph node (or driver step) it is at
    state,            \* per task: the GraphState of the running turn
    run,              \* per task: user_query, session_id, final_answer
    log,              \* per task: what the collaborators were asked / said
    turns,            \* turns started so far
    collection,       \* rag_builder.py: the Chroma collection (VectorIndex)
    bm25,             \* the pickled bundle at BM25_INDEX_PATH (KeywordIndex)
    build,            \* per build task: locals of build_rag_from_path
    builds,           \* builds started so far
    tool,             \* rag_search.py: the RagSearchTool instance
    search,           \* locals and outcome of the tool's execute call
    agent,            \* per task: locals of run_agent (tool-calling turn)
    chunker,          \* one call of the chunker: its input and its windows
    store_call        \* history.py: the last call of the store, its result

loopVars == <<chat_histories, pc, state, run, log, turns>>

buildVars == <<collection, bm25, build, builds>>

searchVars == <<tool, search>>

agentVars == <<agent>>

chunkVars == <<chunker>>

storeVars == <<store_call>>

vars == <<chat_histories, pc, state, run, log, turns,
          collection, bm25, build, builds, tool, search, agent, chunker,
          store_call>>

(***************************************************************************)
(* core/history.py                                                         *)
(***************************************************************************)
get_messages(h, sid) == IF sid \in DOMAIN h THEN h[sid] ELSE << >>

\* variant: the session's list is assigned instead of extended
add_messages_overwrite(h, sid, messages) ==
    [s \in (DOMAIN h) \cup {sid} |-> IF s = sid THEN messages ELSE h[s]]

add_messages(h, sid, messages) ==
    [s \in (DOMAIN h) \cup {sid} |->
        IF s = sid THEN get_messages(h, sid) \o messages ELSE h[s]]

clear(h, sid) == [s \in (DOMAIN h) \ {sid} |-> h[s]]

(***************************************************************************)
(* core/langgraph_agent.py : graph nodes.  Each node is a function from    *)
(* the state (and the collaborator's reply) to the update it returns.      *)
(***************************************************************************)
\* core/base_agent.py: the keyword parameters get_chat_model declares
\* (def get_chat_model() -> ChatOpenAI); a call that passes another keyword
\* raises TypeError
get_chat_model_parameters == {}

\* the node asks the collaborator only after get_chat_model(temperature=0)
\* (line 63) has returned the model
classify_topic_node(st, reply) ==
    IF Get(st, "chat_history", << >>) = << >>
    THEN Returned([is_new_topic |-> TRUE])
    ELSE IF "temperature" \notin get_chat_model_parameters
         THEN Raised
         ELSE IF Contains(<<"n", "o">>, Lower(reply))
              THEN Returned([is_new_topic |-> TRUE])
              ELSE Returned([is_new_topic |-> FALSE])

\* variant: the evidence is appended to the documents already in the state
retrieve_documents_node_appends(st, documents_string) ==
    [documents |-> Get(st, "documents", << >>) \o <<documents_string>>,
     question |-> st["question"],
     iterations |-> Get(st, "iterations", 0) + 1]

retrieve_documents_node(st, documents_string) ==
    [documents |-> <<documents_string>>,
     question |-> st["question"],
     iterations |-> Get(st, "iterations", 0) + 1]

\* variant: a draft already in the state is kept
generate_answer_node_keeps_first(st, content) ==
    IF "generation" \in DOMAIN st THEN [generation |-> st["generation"]]
    ELSE [generation |-> content]

generate_answer_node(st, content) == [generation |-> content]

grade_answer_node(st, reply) ==
    IF Contains(<<"y", "e", "s">>, Lower(reply))
    THEN [grade |-> "useful"]
    ELSE [grade |-> "not useful"]

rewrite_question_node(st, content) == [question |-> content]

\* variant: the cap is one iteration late
should_continue_cap_late(st) ==
    IF Get(st, "iterations", 0) > 4 THEN "end"
    ELSE IF Get(st, "grade", None) = "useful" THEN "end"
    ELSE "continue"

\* variant: the cap is one iteration early
should_continue_cap_early(st) ==
    IF Get(st, "iterations", 0) >= 3 THEN "end"
    ELSE IF Get(st, "grade", None) = "useful" THEN "end"
    ELSE "continue"

should_continue(st) ==
    IF Get(st, "iterations", 0) > 3 THEN "end"
    ELSE IF Get(st, "grade", None) = "useful" THEN "end"
    ELSE "continue"

\* the history a node hands to the collaborator
effective_history(st) ==
    IF ~Get(st, "is_new_topic", TRUE) THEN Get(st, "chat_history", << >>)
    ELSE << >>

(***************************************************************************)
(* core/rag_builder.py : texts, chunks and the collection.                 *)
(*                                                                         *)
(* A text is known by its token sequence: `n` tokens, of which the tokens  *)
(* at positions wsFrom .. n-1 are whitespace (a text with wsFrom = 0 is    *)
(* empty or whitespace-only).  A chunk is a window lo .. hi-1 of a text.   *)
(***************************************************************************)
Urls == {"u1", "u2"}
UrlRank(u) == IF u = "u1" THEN 1 ELSE 2

Text(tag, n, wsFrom) == [tag |-> tag, n |-> n, wsFrom |-> wsFrom]

EmptyText == Text("empty", 0, 0)       \* what a failed fetch returns
PageTexts ==
    { EmptyText,
      Text("blank", 2, 0),             \* whitespace only
      Text("A", 100, 100),             \* one chunk
      Text("B", 513, 513),             \* two chunks
      Text("C", 925, 925),             \* three chunks
      Text("D", 463, 462) }            \* two chunks, the last one whitespace

EmbedVersions == {"v1", "v2"}

Min(a, b) == IF a <= b THEN a ELSE b
Max(a, b) == IF a >= b THEN a ELSE b

\* variant: only the empty string is skipped (`if not text_content`)
StripIsEmpty_only_empty(text) == text.n = 0

\* text.strip() is empty
StripIsEmpty(text) == text.wsFrom = 0

\* chunk_text.strip(): the window without its trailing whitespace tokens
StripChunk(chunk) ==
    [chunk EXCEPT !.hi = Max(chunk.lo, Min(chunk.hi, chunk.wsFrom))]

ChunkIsEmpty(chunk) == chunk.hi <= chunk.lo

_generate_content_hash(content) == <<"sha256", content>>

\* range(start, stop, step) for step > 0, as the list of its values
RECURSIVE range(_, _, _)
range(start, stop, step) ==
    IF start >= stop THEN << >>
    ELSE <<start>> \o range(start + step, stop, step)

\* variant: the window advances by its whole size
token_windows_no_overlap(n, size, overlap) ==
    LET RECURSIVE starts_from(_)
        starts_from(i) == IF i >= n THEN << >>
                          ELSE <<i>> \o starts_from(i + size)
        starts == starts_from(0)
    IN [k \in 1..Len(starts) |->
           [lo |-> starts[k],
            hi |-> IF starts[k] + size <= n THEN starts[k] + size ELSE n]]

\* variant: a window that would be cut short by the end is not produced
token_windows_full_only(n, size, overlap) ==
    LET RECURSIVE starts_from(_)
        starts_from(i) == IF i + size > n THEN << >>
                          ELSE <<i>> \o starts_from(i + (size - overlap))
        starts == starts_from(0)
    IN [k \in 1..Len(starts) |->
           [lo |-> starts[k], hi |-> starts[k] + size]]

\* the loop of _split_text_into_chunks over n tokens, for a chunk size and
\* an overlap: for i in range(0, n, size - overlap): tokens[i:i + size]
token_windows(n, size, overlap) ==
    LET starts == range(0, n, size - overlap)
    IN [k \in 1..Len(starts) |->
           [lo |-> starts[k], hi |-> Min(starts[k] + size, n)]]

_split_text_into_chunks(text) ==
    LET windows == token_windows(text.n, CHUNK_SIZE, CHUNK_OVERLAP)
    IN [k \in 1..Len(windows) |->
           [tag |-> text.tag, lo |-> windows[k].lo, hi |-> windows[k].hi,
            wsFrom |-> text.wsFrom]]

\* the id f"{page_url}#{i}"
ChunkId(page_url, i) == [page_url |-> page_url, seq |-> i]

\* _get_all_pages_from_db
_get_all_pages_from_db(coll) ==
    {coll[id].metadata.page_url : id \in DOMAIN coll}

\* variant: only the first chunk of each url is deleted
_delete_vectors_by_url_first_chunk(coll, urls) ==
    [id \in {x \in DOMAIN coll :
                ~(coll[x].metadata.page_url \in urls /\ x.seq = 0)} |->
        coll[id]]

\* _delete_vectors_by_url: collection.delete(where={"page_url": {"$in": urls}})
_delete_vectors_by_url(coll, urls) ==
    [id \in {x \in DOMAIN coll : coll[x].metadata.page_url \notin urls} |->
        coll[id]]

\* _upsert_vectors_to_db: collection.upsert(ids, embeddings, metadatas)
_upsert_vectors_to_db(coll, ids, embeddings, metadatas) ==
    LET new == {ids[k] : k \in 1..Len(ids)}
        pos(id) == CHOOSE k \in 1..Len(ids) : ids[k] = id
    IN [id \in (DOMAIN coll) \cup new |->
           IF id \in new
           THEN [embedding |-> embeddings[pos(id)],
                 metadata |-> metadatas[pos(id)]]
           ELSE coll[id]]

\* collection.get(where={"page_url": page_url}, limit=1): the items it can
\* return (one of the page's chunks), or none
ItemsOfPage(coll, page_url) ==
    {id \in DOMAIN coll : coll[id].metadata.page_url = page_url}

\* variant: the comparison of the hashes is inverted
content_unchanged_inverted(coll, existing_item, content_hash) ==
    /\ existing_item # << >>
    /\ coll[existing_item[1]].metadata.content_hash # content_hash

\* line 119: the page has an indexed chunk and its stored hash is the new hash
content_unchanged(coll, existing_item, content_hash) ==
    /\ existing_item # << >>
    /\ coll[existing_item[1]].metadata.content_hash = content_hash

\* variant: the new chunks are upserted over the old ones
replace_page_chunks_keep(coll, had_existing, page_url, ids, embeddings, metadatas) ==
    _upsert_vectors_to_db(coll, ids, embeddings, metadatas)

\* lines 134-138: drop the page's old chunks, if it had any, then upsert
replace_page_chunks(coll, had_existing, page_url, ids, embeddings, metadatas) ==
    _upsert_vectors_to_db(
        IF had_existing THEN _delete_vectors_by_url(coll, {page_url}) ELSE coll,
        ids, embeddings, metadatas)

\* collection.get(include=['metadatas']): all ids, here by url and sequence
IdBefore(a, b) ==
    \/ UrlRank(a.page_url) < UrlRank(b.page_url)
    \/ a.page_url = b.page_url /\ a.seq < b.seq

RECURSIVE SortIds(_)
SortIds(S) ==
    IF S = {} THEN << >>
    ELSE LET first == CHOOSE a \in S : \A b \in S \ {a} : IdBefore(a, b)
         IN <<first>> \o SortIds(S \ {first})

_build_and_save_bm25_index_always_writes(coll, onDisk) ==
    LET all_ids == SortIds(DOMAIN coll)
        Valid(id) == ~ChunkIsEmpty(StripChunk(coll[id].metadata.chunk_text))
        valid_ids == SelectSeq(all_ids, Valid)
        valid_chunks ==
            [k \in 1..Len(valid_ids) |->
                StripChunk(coll[valid_ids[k]].metadata.chunk_text)]
    IN << [corpus_ids |-> valid_ids, corpus_chunks |-> valid_chunks] >>

_build_and_save_bm25_index_all_ids(coll, onDisk) ==
    LET all_ids == SortIds(DOMAIN coll)
        Valid(id) == ~ChunkIsEmpty(StripChunk(coll[id].metadata.chunk_text))
        valid_ids == SelectSeq(all_ids, Valid)
        valid_chunks ==
            [k \in 1..Len(valid_ids) |->
                StripChunk(coll[valid_ids[k]].metadata.chunk_text)]
    IN IF all_ids = << >> THEN onDisk
       ELSE IF valid_chunks = << >> THEN onDisk
       ELSE << [corpus_ids |-> all_ids, corpus_chunks |-> valid_chunks] >>

\* variant: the entries found are added to those of the bundle on disk
_build_and_save_bm25_index_appends(coll, onDisk) ==
    LET all_ids == SortIds(DOMAIN coll)
        Valid(id) == ~ChunkIsEmpty(StripChunk(coll[id].metadata.chunk_text))
        valid_ids == SelectSeq(all_ids, Valid)
        valid_chunks ==
            [k \in 1..Len(valid_ids) |->
                StripChunk(coll[valid_ids[k]].metadata.chunk_text)]
    IN IF all_ids = << >> THEN onDisk
       ELSE IF valid_chunks = << >> THEN onDisk
       ELSE IF onDisk = << >>
            THEN << [corpus_ids |-> valid_ids,
                     corpus_chunks |-> valid_chunks] >>
            ELSE << [corpus_ids |-> onDisk[1].corpus_ids \o valid_ids,
                     corpus_chunks |->
                         onDisk[1].corpus_chunks \o valid_chunks] >>

\* _build_and_save_bm25_index: the bundle on disk after the call
_build_and_save_bm25_index(coll, onDisk) ==
    LET all_ids == SortIds(DOMAIN coll)
        Valid(id) == ~ChunkIsEmpty(StripChunk(coll[id].metadata.chunk_text))
        valid_ids == SelectSeq(all_ids, Valid)
        valid_chunks ==
            [k \in 1..Len(valid_ids) |->
                StripChunk(coll[valid_ids[k]].metadata.chunk_text)]
    IN IF all_ids = << >> THEN onDisk
       ELSE IF valid_chunks = << >> THEN onDisk
       ELSE << [corpus_ids |-> valid_ids, corpus_chunks |-> valid_chunks] >>

BuildSlots == {1}

NoPending ==
    [page_url |-> None, chunks |-> << >>, metadatas |-> << >>,
     had_existing |-> FALSE]

\* the bundle file: << >> when the file does not exist, <<bundle>> otherwise
NoBm25 == << >>

IdleBuild ==
    [pc |-> "idle", all_page_urls |-> << >>, site |-> << >>, i |-> 0,
     processed_files_count |-> 0, skipped_files_count |-> 0,
     pages_to_delete |-> {}, pending |-> NoPending, status |-> None,
     start |-> << >>, startBm25 |-> NoBm25, wrote |-> FALSE,
     repeat |-> FALSE]

(***************************************************************************)
(* core/tools/rag_search.py : RagSearchTool.  A ranked list is a sequence  *)
(* of <<doc_id, score>> pairs, best first.  A fused score is a sum of      *)
(* terms 1/(k + rank); it is kept as an exact fraction <<num, den>>.       *)
(***************************************************************************)
RRF_K == 60

\* the n_results values execute is called with; 5 is its default
NResults == {1, 2, 5}

\* the empty query and a non-empty one
Queries == {"", "q1"}

\* the scores BM25Okapi.get_scores gives the documents of the bundle
Bm25Scores == {0, 1, 2}

Frac(num, den) == <<num, den>>

FracAdd(a, b) == Frac(a[1] * b[2] + b[1] * a[2], a[2] * b[2])

FracLess(a, b) == a[1] * b[2] < b[1] * a[2]

\* sorted(items, key=..., reverse=True), keys[i] being the key of items[i]:
\* the sort is stable, items with equal keys keep their order
sorted_reverse(items, keys) ==
    LET n == Len(items)
        pos == [i \in 1..n |->
                   1 + Cardinality({j \in 1..n : FracLess(keys[i], keys[j])})
                     + Cardinality({j \in 1..(i - 1) :
                                       ~FracLess(keys[i], keys[j])
                                           /\ ~FracLess(keys[j], keys[i])})]
    IN [p \in 1..n |-> items[CHOOSE i \in 1..n : pos[i] = p]]

\* scores[doc_id] += 1.0 / (k + rank); `scores` is the dict as the sequence
\* of its items in insertion order
AddScore(scores, doc_id, rank) ==
    IF \E j \in 1..Len(scores) : scores[j][1] = doc_id
    THEN [j \in 1..Len(scores) |->
             IF scores[j][1] = doc_id
             THEN <<doc_id, FracAdd(scores[j][2], Frac(1, RRF_K + rank))>>
             ELSE scores[j]]
    ELSE Append(scores,
                <<doc_id, FracAdd(Frac(0, 1), Frac(1, RRF_K + rank))>>)

\* the inner loop: for rank, (doc_id, _) in enumerate(results, 1)
RECURSIVE ScoreResults(_, _, _)
ScoreResults(scores, results, rank) ==
    IF rank > Len(results) THEN scores
    ELSE ScoreResults(AddScore(scores, results[rank][1], rank),
                      results, rank + 1)

\* the outer loop: for results in result_sets
RECURSIVE ScoreSets(_, _, _)
ScoreSets(scores, result_sets, s) ==
    IF s > Len(result_sets) THEN scores
    ELSE ScoreSets(ScoreResults(scores, result_sets[s], 1),
                   result_sets, s + 1)

\* key=lambda item: item[1]
ScoreKeys(scores) == [j \in 1..Len(scores) |-> scores[j][2]]

\* variant: sorted without reverse=True
_reciprocal_rank_fusion_ascending(result_sets) ==
    LET items == ScoreSets(<< >>, result_sets, 1)
        n == Len(items)
        pos == [i \in 1..n |->
                   1 + Cardinality({j \in 1..n :
                                       FracLess(items[j][2], items[i][2])})
                     + Cardinality({j \in 1..(i - 1) :
                                       ~FracLess(items[i][2], items[j][2])
                                           /\ ~FracLess(items[j][2],
                                                        items[i][2])})]
    IN [p \in 1..n |-> items[CHOOSE i \in 1..n : pos[i] = p]]

\* variant: scores[doc_id] = 1.0 / (k + rank), the last list's term only
_reciprocal_rank_fusion_overwrite(result_sets) ==
    LET scores == ScoreSets(<< >>, result_sets, 1)
        In(s, id) == \E r \in 1..Len(result_sets[s]) :
                         result_sets[s][r][1] = id
        last(id) == CHOOSE s \in 1..Len(result_sets) :
                        In(s, id) /\ \A t \in (s + 1)..Len(result_sets) :
                                         ~In(t, id)
        rank(id) == CHOOSE r \in 1..Len(result_sets[last(id)]) :
                        result_sets[last(id)][r][1] = id
        items == [j \in 1..Len(scores) |->
                     <<scores[j][1], Frac(1, RRF_K + rank(scores[j][1]))>>]
    IN sorted_reverse(items, ScoreKeys(items))

_reciprocal_rank_fusion(result_sets) ==
    LET scores == ScoreSets(<< >>, result_sets, 1)
    IN sorted_reverse(scores, ScoreKeys(scores))

\* collection.query: the ids of the min(n_results, count) nearest entries,
\* nearest first; which entries are nearest depends on the embeddings, so
\* every order is possible.  An entry is <<id, distance>>.
QueryResults(coll, n_results) ==
    LET m == Min(n_results, Cardinality(DOMAIN coll))
    IN {[k \in 1..m |-> <<f[k], k>>] :
           f \in {g \in [1..m -> DOMAIN coll] :
                     \A a \in 1..m, b \in 1..m : g[a] = g[b] => a = b}}

\* _vector_search, after the query embedding has returned
_vector_search(query, nearest) ==
    IF query = "" THEN << >>
    ELSE [k \in 1..Len(nearest) |-> <<nearest[k][1], 1 - nearest[k][2]>>]

\* RagSearchTool.__init__: the BM25 fields of the instance
NoTool ==
    [constructed |-> FALSE, _bm25_index |-> None, _bm25_corpus_ids |-> << >>]

RagSearchTool(onDisk) ==
    IF onDisk # NoBm25
    THEN [constructed |-> TRUE, _bm25_index |-> "BM25Okapi",
          _bm25_corpus_ids |-> onDisk[1].corpus_ids]
    ELSE [constructed |-> TRUE, _bm25_index |-> None,
          _bm25_corpus_ids |-> << >>]

\* variant: no check for a missing index; None.get_scores raises
_keyword_search_unguarded(self, doc_scores, n_results) ==
    IF self._bm25_index = None
    THEN Raised
    ELSE LET indices == [i \in 1..Len(doc_scores) |-> i]
             keys == [i \in 1..Len(doc_scores) |-> Frac(doc_scores[i], 1)]
             ranked == sorted_reverse(indices, keys)
             top_n_indices == SubSeq(ranked, 1, Min(n_results, Len(ranked)))
         IN Returned([k \in 1..Len(top_n_indices) |->
                         <<self._bm25_corpus_ids[top_n_indices[k]],
                           doc_scores[top_n_indices[k]]>>])

\* variant: documents that score 0 are left out of the list
_keyword_search_positive_only(self, doc_scores, n_results) ==
    IF self._bm25_index = None
    THEN Returned(<< >>)
    ELSE LET indices == [i \in 1..Len(doc_scores) |-> i]
             keys == [i \in 1..Len(doc_scores) |-> Frac(doc_scores[i], 1)]
             Positive(i) == doc_scores[i] > 0
             ranked == SelectSeq(sorted_reverse(indices, keys), Positive)
             top_n_indices == SubSeq(ranked, 1, Min(n_results, Len(ranked)))
         IN Returned([k \in 1..Len(top_n_indices) |->
                         <<self._bm25_corpus_ids[top_n_indices[k]],
                           doc_scores[top_n_indices[k]]>>])

\* _keyword_search; doc_scores is what get_scores returns for the query
_keyword_search(self, doc_scores, n_results) ==
    IF self._bm25_index = None
    THEN Returned(<< >>)
    ELSE LET indices == [i \in 1..Len(doc_scores) |-> i]
             keys == [i \in 1..Len(doc_scores) |-> Frac(doc_scores[i], 1)]
             ranked == sorted_reverse(indices, keys)
             top_n_indices == SubSeq(ranked, 1, Min(n_results, Len(ranked)))
         IN Returned([k \in 1..Len(top_n_indices) |->
                         <<self._bm25_corpus_ids[top_n_indices[k]],
                           doc_scores[top_n_indices[k]]>>])

\* the scores get_scores can return: one per document of the bundle; the
\* empty query has no token and scores every document 0
DocScores(self, query) ==
    IF query = ""
    THEN {[i \in 1..Len(self._bm25_corpus_ids) |-> 0]}
    ELSE [1..Len(self._bm25_corpus_ids) -> Bm25Scores]

\* variant: the whole fused list is kept
final_doc_ids_of_all(fused_results, n_results) ==
    [k \in 1..Len(fused_results) |-> fused_results[k][1]]

\* [doc_id for doc_id, _ in fused_results[:n_results]]
final_doc_ids_of(fused_results, n_results) ==
    [k \in 1..Min(n_results, Len(fused_results)) |-> fused_results[k][1]]

\* collection.get(ids=...): the entries stored under the ids, in the
\* collection's order; an id that is not stored yields no entry
collection_get(coll, ids) ==
    LET found == SortIds({ids[k] : k \in 1..Len(ids)} \cap DOMAIN coll)
    IN [ids |-> found,
        metadatas |-> [k \in 1..Len(found) |-> coll[found[k]].metadata]]

\* the string f"'{query}'에 대한 검색 결과가 없습니다."
NoResultsString == [found |-> FALSE, docs |-> << >>]

\* _format_results: the evidence string, as the list of documents it shows
_format_results(final_documents) ==
    IF final_documents.ids = << >>
    THEN NoResultsString
    ELSE [found |-> TRUE,
          docs |-> [k \in 1..Len(final_documents.ids) |->
                       [doc_id |-> final_documents.ids[k],
                        page_url |-> final_documents.metadatas[k].page_url,
                        chunk_text |->
                            final_documents.metadatas[k].chunk_text]]]

\* execute once _vector_search has returned (line 89-128): the locals of the
\* call and what it returns or raises
execute(self, coll, query, n_results, vector_results, doc_scores) ==
    LET keyword == _keyword_search(self, doc_scores, n_results * 2)
        keyword_results == keyword.value
        fused_results ==
            _reciprocal_rank_fusion(<<vector_results, keyword_results>>)
        final_doc_ids == final_doc_ids_of(fused_results, n_results)
        final_documents == collection_get(coll, final_doc_ids)
    IN IF keyword.raised
       THEN [pc |-> "raised", query |-> query, n_results |-> n_results,
             vector_results |-> vector_results, keyword_results |-> << >>,
             fused_results |-> << >>, final_doc_ids |-> << >>,
             result |-> Raised]
       ELSE [pc |-> "returned", query |-> query, n_results |-> n_results,
             vector_results |-> vector_results,
             keyword_results |-> keyword_results,
             fused_results |-> fused_results,
             final_doc_ids |-> final_doc_ids,
             result |->
                 IF final_doc_ids = << >>
                 THEN Returned([formatted_string |-> NoResultsString,
                                count |-> 0])
                 ELSE Returned([formatted_string |->
                                    _format_results(final_documents),
                                count |-> Len(final_doc_ids)])]

IdleSearch ==
    [pc |-> "idle", query |-> "", n_results |-> 0,
     vector_results |-> << >>, keyword_results |-> << >>,
     fused_results |-> << >>, final_doc_ids |-> << >>,
     result |-> Returned([formatted_string |-> NoResultsString,
                          count |-> 0])]

(***************************************************************************)
(* core/agent.py : run_agent (core/tool_calling_agent.py :                 *)
(* run_tool_calling_agent has the same body).  A turn asks the collaborator*)
(* for a completion, runs the first tool the completion requests and asks  *)
(* for a second completion over the tool's output.                         *)
(***************************************************************************)
AgentSlots == {1, 2}
AgentQueries == {"q1", "q2"}

\* the names of the tools in AVAILABLE_TOOLS = [RagSearchTool()]
AVAILABLE_TOOLS == <<"hybrid_rag_search_tool">>

\* next((tool for tool in AVAILABLE_TOOLS if tool.name == tool_name), None)
tool_to_use_of(tool_name) ==
    IF \E i \in 1..Len(AVAILABLE_TOOLS) : AVAILABLE_TOOLS[i] = tool_name
    THEN tool_name
    ELSE None

\* json.loads on the argument strings the collaborator sends: an object
\* with the query, an object without it, and a string that is not JSON
json_loads(arguments) ==
    CASE arguments = "{\"query\": \"q1\"}" -> Returned([query |-> "q1"])
      [] arguments = "{}" -> Returned(<< >>)
      [] OTHER -> Raised

\* execute(self, query, n_results=5) can be called with **tool_args
BindsExecute(tool_args) ==
    /\ "query" \in DOMAIN tool_args
    /\ (DOMAIN tool_args) \subseteq {"query", "n_results"}

ToolCall(id, name, arguments) ==
    [id |-> id, function |-> [name |-> name, arguments |-> arguments]]

ToolCallLists ==
    { <<ToolCall("c1", n, a)>> :
          n \in {"hybrid_rag_search_tool", "other_tool"},
          a \in {"{\"query\": \"q1\"}", "{"} }
    \cup { <<ToolCall("c1", "hybrid_rag_search_tool", "{}")>>,
           <<ToolCall("c1", "hybrid_rag_search_tool", "{\"query\": \"q1\"}"),
             ToolCall("c2", "other_tool", "{\"query\": \"q1\"}")>>,
           <<ToolCall("c1", "other_tool", "{\"query\": \"q1\"}"),
             ToolCall("c2", "hybrid_rag_search_tool", "{\"query\": \"q1\"}")>> }

\* response_message.model_dump(exclude_unset=True) of the first completion
FirstResponses ==
    { [role |-> "assistant", content |-> c] : c \in Answers }
    \cup { [role |-> "assistant", content |-> None, tool_calls |-> calls] :
               calls \in ToolCallLists }

\* what RagSearchTool.execute returns: (formatted_string, count)
ToolOutputs == { <<"e1", 2>>, <<"no results", 0>> }

system_prompt == [role |-> "system", content |-> "system"]

UnknownToolError(tool_name) == "unknown tool: " \o tool_name

IdleAgent ==
    [pc |-> "idle", user_query |-> None, session_id |-> None,
     messages |-> << >>, new_messages_for_history |-> << >>,
     messages_for_second_call |-> << >>, final_answer |-> None,
     completions |-> 0, executions |-> << >>]

\* no call of the store yet
NoStoreCall == [n |-> 0, op |-> None, session_id |-> None, result |-> << >>]

\* no chunker call under way
IdleChunker == [pc |-> "idle", n |-> 0, size |-> CHUNK_SIZE,
                overlap |-> CHUNK_OVERLAP, chunks |-> << >>]

EmptyLog ==
    [evs |-> << >>, gens |-> << >>, grades |-> << >>, judged |-> << >>,
     rewrites |-> 0, classified |-> 0]

\* the state after construction, for a store that holds h
InitWith(h) ==
    /\ chat_histories = h
    /\ pc = [t \in Slots |-> "idle"]
    /\ state = [t \in Slots |-> << >>]
    /\ run = [t \in Slots |-> [user_query |-> None, session_id |-> None,
                               final_answer |-> None]]
    /\ log = [t \in Slots |-> EmptyLog]
    /\ turns = 0
    /\ collection = << >>
    /\ bm25 = NoBm25
    /\ build = [b \in BuildSlots |-> IdleBuild]
    /\ builds = 0
    /\ tool = NoTool
    /\ search = IdleSearch
    /\ agent = [a \in AgentSlots |-> IdleAgent]
    /\ chunker = IdleChunker
    /\ store_call = NoStoreCall

Init == InitWith(<< >>)

(***************************************************************************)
(* run_langgraph_agent, steps 1-2: load the history suffix, build inputs.  *)
(***************************************************************************)
StartTurn(t, user_query, session_id) ==
    /\ pc[t] \in {"idle", "done", "failed"}
    /\ turns < MaxTurns
    /\ turns' = turns + 1
    /\ LET past_messages ==
               IF session_id # None
               THEN LastN(get_messages(chat_histories, session_id),
                          MAX_CONVERSATION_HISTORY_MESSAGES)
               ELSE << >>
       IN state' = [state EXCEPT ![t] =
                       [question |-> user_query, chat_history |-> past_messages]]
    /\ run' = [run EXCEPT ![t] = [user_query |-> user_query,
                                  session_id |-> session_id,
                                  final_answer |-> None]]
    /\ log' = [log EXCEPT ![t] = EmptyLog]
    /\ pc' = [pc EXCEPT ![t] = "classify_topic"]
    /\ UNCHANGED <<chat_histories, buildVars, searchVars, chunkVars, storeVars,
                   agentVars>>

\* the node returns its update, or its exception leaves the driver
ClassifyTopic(t, reply) ==
    /\ pc[t] = "classify_topic"
    /\ LET node == classify_topic_node(state[t], reply)
       IN IF node.raised
          THEN /\ pc' = [pc EXCEPT ![t] = "failed"]
               /\ UNCHANGED state
          ELSE /\ pc' = [pc EXCEPT ![t] = "retrieve"]
               /\ state' = [state EXCEPT ![t] = Merge(@, node.value)]
    /\ log' = [log EXCEPT ![t].classified = @ + 1]
    /\ UNCHANGED <<chat_histories, run, turns,
                   buildVars, searchVars, chunkVars, storeVars, agentVars>>

Retrieve(t, documents_string) ==
    /\ pc[t] = "retrieve"
    /\ state' = [state EXCEPT ![t] =
                    Merge(@, retrieve_documents_node(@, documents_string))]
    /\ log' = [log EXCEPT ![t].evs = Append(@, documents_string)]
    /\ pc' = [pc EXCEPT ![t] = "generate"]
    /\ UNCHANGED <<chat_histories, run, turns,
                   buildVars, searchVars, chunkVars, storeVars, agentVars>>

Generate(t, content) ==
    /\ pc[t] = "generate"
    /\ state' = [state EXCEPT ![t] = Merge(@, generate_answer_node(@, content))]
    /\ log' = [log EXCEPT ![t].gens = Append(@, content)]
    /\ pc' = [pc EXCEPT ![t] = "grade"]
    /\ UNCHANGED <<chat_histories, run, turns,
                   buildVars, searchVars, chunkVars, storeVars, agentVars>>

\* the grade node followed by the conditional edge should_continue
Grade(t, reply) ==
    /\ pc[t] = "grade"
    /\ LET new == Merge(state[t], grade_answer_node(state[t], reply))
       IN /\ state' = [state EXCEPT ![t] = new]
          /\ log' = [log EXCEPT ![t].grades = Append(@, new["grade"]),
                                ![t].judged = Append(@, state[t]["question"])]
          /\ pc' = [pc EXCEPT ![t] =
                       IF should_continue(new) = "continue"
                       THEN "rewrite" ELSE "END"]
    /\ UNCHANGED <<chat_histories, run, turns,
                   buildVars, searchVars, chunkVars, storeVars, agentVars>>

Rewrite(t, content) ==
    /\ pc[t] = "rewrite"
    /\ state' = [state EXCEPT ![t] = Merge(@, rewrite_question_node(@, content))]
    /\ log' = [log EXCEPT ![t].rewrites = @ + 1]
    /\ pc' = [pc EXCEPT ![t] = "retrieve"]
    /\ UNCHANGED <<chat_histories, run, turns,
                   buildVars, searchVars, chunkVars, storeVars, agentVars>>

\* run_langgraph_agent, steps 3-5: the graph has ended
Terminate(t) ==
    /\ pc[t] = "END"
    /\ LET final_answer == state[t]["generation"]
           new_messages ==
               << [role |-> "user", content |-> run[t].user_query],
                  [role |-> "assistant", content |-> final_answer] >>
       IN /\ run' = [run EXCEPT ![t].final_answer = final_answer]
          /\ chat_histories' =
                 IF run[t].session_id # None
                 THEN add_messages(chat_histories, run[t].session_id,
                                   new_messages)
                 ELSE chat_histories
    /\ pc' = [pc EXCEPT ![t] = "done"]
    /\ UNCHANGED <<state, log, turns,
                   buildVars, searchVars, chunkVars, storeVars, agentVars>>

\* an awaited collaborator call raises: the exception leaves the driver
CollaboratorFails(t) ==
    /\ pc[t] \in {"classify_topic", "retrieve", "generate", "grade", "rewrite"}
    /\ pc' = [pc EXCEPT ![t] = "failed"]
    /\ UNCHANGED <<chat_histories, state, run, log, turns,
                   buildVars, searchVars, chunkVars, storeVars, agentVars>>

TurnStep(t) ==
    \/ \E reply \in JudgeReplies : ClassifyTopic(t, reply)
    \/ \E e \in Evidence : Retrieve(t, e)
    \/ \E a \in Answers : Generate(t, a)
    \/ \E reply \in JudgeReplies : Grade(t, reply)
    \/ \E q \in RewriteReplies : Rewrite(t, q)
    \/ Terminate(t)
    \/ CollaboratorFails(t)

Next ==
    \/ \E t \in Slots, q \in UserQueries, sid \in SessionIds \cup {None} :
           StartTurn(t, q, sid)
    \/ \E t \in Slots : TurnStep(t)

Spec == Init /\ [][Next]_vars

\* Every collaborator call returns: no step raises, and a running turn
\* keeps being scheduled by the event loop.
TurnStepReturns(t) ==
    \/ \E reply \in JudgeReplies : ClassifyTopic(t, reply)
    \/ \E e \in Evidence : Retrieve(t, e)
    \/ \E a \in Answers : Generate(t, a)
    \/ \E reply \in JudgeReplies : Grade(t, reply)
    \/ \E q \in RewriteReplies : Rewrite(t, q)
    \/ Terminate(t)

NextReturns ==
    \/ \E t \in Slots, q \in UserQueries, sid \in SessionIds \cup {None} :
           StartTurn(t, q, sid)
    \/ \E t \in Slots : TurnStepReturns(t)

SpecReturns ==
    Init /\ [][NextReturns]_vars /\ \A t \in Slots : WF_vars(TurnStepReturns(t))

(***************************************************************************)
(* core/rag_builder.py : build_rag_from_path.  A build gives up control    *)
(* only at its awaits: the crawl, each page scrape and each embedding      *)
(* call; the code between two awaits is one step.                          *)
(***************************************************************************)
\* variant: the bundle is rebuilt at the end of every pass of the page loop
NextPage_rebuild_every_pass(b, rec, coll) ==
    /\ bm25' = _build_and_save_bm25_index(coll, bm25)
    /\ collection' = coll
    /\ build' = [build EXCEPT ![b] =
           IF rec.i < Len(rec.all_page_urls)
           THEN [rec EXCEPT !.i = rec.i + 1, !.pc = "scrape",
                            !.pending = NoPending]
           ELSE [rec EXCEPT !.pc = "done", !.status = "success",
                            !.pending = NoPending,
                            !.wrote = (\E id \in DOMAIN coll :
                               ~ChunkIsEmpty(StripChunk(
                                   coll[id].metadata.chunk_text)))]]

\* the end of one pass of the page loop: the next page, or, after the last
\* one, the BM25 rebuild and the success report
NextPage(b, rec, coll) ==
    IF rec.i < Len(rec.all_page_urls)
    THEN /\ build' = [build EXCEPT ![b] =
                         [rec EXCEPT !.i = rec.i + 1, !.pc = "scrape",
                                     !.pending = NoPending]]
         /\ collection' = coll
         /\ UNCHANGED bm25
    ELSE /\ bm25' = _build_and_save_bm25_index(coll, bm25)
         /\ build' = [build EXCEPT ![b] =
                         [rec EXCEPT !.pc = "done", !.status = "success",
                                     !.pending = NoPending,
                                     !.wrote = (\E id \in DOMAIN coll :
                                        ~ChunkIsEmpty(StripChunk(
                                            coll[id].metadata.chunk_text)))]]
         /\ collection' = coll

SetOf(seq) == {seq[k] : k \in 1..Len(seq)}

\* the build that starts crawls the same set of pages as the build that has
\* just returned success, and every page serves the same text as then
RepeatsBuild(prev, all_page_urls, site) ==
    /\ prev.status = "success"
    /\ SetOf(prev.all_page_urls) = SetOf(all_page_urls)
    /\ prev.site = site

\* the collection once the crawl has returned: untouched when the crawl found
\* no page (the build returns before the deletion step), otherwise without
\* the chunks of the indexed pages that the crawl does not list
delete_removed_pages_before_return(coll, all_page_urls) ==
    LET pages_to_delete == _get_all_pages_from_db(coll) \ SetOf(all_page_urls)
    IN IF pages_to_delete # {}
       THEN _delete_vectors_by_url(coll, pages_to_delete)
       ELSE coll

delete_removed_pages(coll, all_page_urls) ==
    IF all_page_urls = << >>
    THEN coll
    ELSE LET db_pages == _get_all_pages_from_db(coll)
             crawled_pages_set == SetOf(all_page_urls)
             pages_to_delete == db_pages \ crawled_pages_set
         IN IF pages_to_delete # {}
            THEN _delete_vectors_by_url(coll, pages_to_delete)
            ELSE coll

\* get_all_page_urls has returned all_page_urls; `site` is the text each
\* crawled page serves during this build
BuildStart(b, all_page_urls, site) ==
    /\ build[b].pc \in {"idle", "done", "raised"}
    /\ builds < MaxBuilds
    /\ builds' = builds + 1
    /\ collection' = delete_removed_pages(collection, all_page_urls)
    /\ IF all_page_urls = << >>
       THEN build' = [build EXCEPT ![b] =
                         [IdleBuild EXCEPT !.pc = "done",
                                           !.status = "error",
                                           !.start = collection,
                                           !.startBm25 = bm25]]
       ELSE build' = [build EXCEPT ![b] =
                         [IdleBuild EXCEPT
                             !.pc = "scrape",
                             !.all_page_urls = all_page_urls,
                             !.site = site,
                             !.i = 1,
                             !.pages_to_delete =
                                 _get_all_pages_from_db(collection)
                                     \ SetOf(all_page_urls),
                             !.start = collection,
                             !.startBm25 = bm25,
                             !.repeat = RepeatsBuild(build[b],
                                           all_page_urls, site)]]
    /\ UNCHANGED bm25
    /\ UNCHANGED <<loopVars, searchVars, chunkVars, storeVars, agentVars>>

\* variant: the old chunks of a changed page are deleted before the
\* embeddings are awaited
ScrapeReturns_deletes_before_embed(b) ==
    /\ build[b].pc = "scrape"
    /\ LET rec == build[b]
           page_url == rec.all_page_urls[rec.i]
           text_content == rec.site[page_url]
           content_hash == _generate_content_hash(text_content)
           found == ItemsOfPage(collection, page_url)
       IN IF StripIsEmpty(text_content)
          THEN NextPage(b, rec, collection)
          ELSE \E existing_item \in
                     (IF found = {} THEN {<< >>}
                      ELSE {<<id>> : id \in found}) :
                 IF content_unchanged(collection, existing_item, content_hash)
                 THEN NextPage(b,
                          [rec EXCEPT !.skipped_files_count = @ + 1],
                          collection)
                 ELSE LET chunks == _split_text_into_chunks(text_content)
                      IN /\ build' = [build EXCEPT ![b] =
                               [rec EXCEPT
                                  !.pc = "embed",
                                  !.pending =
                                     [page_url |-> page_url,
                                      chunks |-> chunks,
                                      metadatas |->
                                         [k \in 1..Len(chunks) |->
                                            [page_url |-> page_url,
                                             content_hash |-> content_hash,
                                             chunk_text |-> chunks[k]]],
                                      had_existing |->
                                         (existing_item # << >>)]]]
                         /\ collection' =
                                _delete_vectors_by_url(collection, {page_url})
                         /\ UNCHANGED bm25
    /\ UNCHANGED <<builds, loopVars, searchVars, chunkVars, storeVars,
                   agentVars>>

\* scrape_dynamic_content has returned the page's text
ScrapeReturns(b) ==
    /\ build[b].pc = "scrape"
    /\ LET rec == build[b]
           page_url == rec.all_page_urls[rec.i]
           text_content == rec.site[page_url]
           content_hash == _generate_content_hash(text_content)
           found == ItemsOfPage(collection, page_url)
       IN IF StripIsEmpty(text_content)
          THEN NextPage(b, rec, collection)
          ELSE \E existing_item \in
                     (IF found = {} THEN {<< >>}
                      ELSE {<<id>> : id \in found}) :
                 IF content_unchanged(collection, existing_item, content_hash)
                 THEN NextPage(b,
                          [rec EXCEPT !.skipped_files_count = @ + 1],
                          collection)
                 ELSE LET chunks == _split_text_into_chunks(text_content)
                      IN /\ build' = [build EXCEPT ![b] =
                               [rec EXCEPT
                                  !.pc = "embed",
                                  !.pending =
                                     [page_url |-> page_url,
                                      chunks |-> chunks,
                                      metadatas |->
                                         [k \in 1..Len(chunks) |->
                                            [page_url |-> page_url,
                                             content_hash |-> content_hash,
                                             chunk_text |-> chunks[k]]],
                                      had_existing |->
                                         (existing_item # << >>)]]]
                         /\ UNCHANGED <<collection, bm25>>
    /\ UNCHANGED <<builds, loopVars, searchVars, chunkVars, storeVars,
                   agentVars>>

\* variant: control is given up between the delete of the page's old chunks
\* and the upsert of the new ones
EmbedReturns_awaits_between(b, version) ==
    /\ build[b].pc = "embed"
    /\ LET rec == build[b]
           p == rec.pending
           embeddings == [k \in 1..Len(p.chunks) |-> <<version, p.chunks[k]>>]
           ids == [k \in 1..Len(p.chunks) |-> ChunkId(p.page_url, k - 1)]
       IN IF /\ p.had_existing
             /\ \E id \in DOMAIN collection :
                    /\ collection[id].metadata.page_url = p.page_url
                    /\ collection[id].metadata.content_hash
                           # p.metadatas[1].content_hash
          THEN /\ collection' =
                      _delete_vectors_by_url(collection, {p.page_url})
               /\ UNCHANGED <<build, bm25>>
          ELSE NextPage(b,
                   [rec EXCEPT !.processed_files_count = @ + 1],
                   _upsert_vectors_to_db(collection, ids, embeddings,
                                         p.metadatas))
    /\ UNCHANGED <<builds, loopVars, searchVars, chunkVars, storeVars,
                   agentVars>>

\* _embed_chunks has returned one vector per chunk
EmbedReturns(b, version) ==
    /\ build[b].pc = "embed"
    /\ LET rec == build[b]
           p == rec.pending
           embeddings == [k \in 1..Len(p.chunks) |-> <<version, p.chunks[k]>>]
           ids == [k \in 1..Len(p.chunks) |-> ChunkId(p.page_url, k - 1)]
       IN NextPage(b,
              [rec EXCEPT !.processed_files_count = @ + 1],
              replace_page_chunks(collection, p.had_existing, p.page_url,
                                  ids, embeddings, p.metadatas))
    /\ UNCHANGED <<builds, loopVars, searchVars, chunkVars, storeVars,
                   agentVars>>

\* _embed_chunks raises: nothing catches it, the build ends with the exception
EmbedFails(b) ==
    /\ build[b].pc = "embed"
    /\ build' = [build EXCEPT ![b].pc = "raised", ![b].status = "raised",
                              ![b].pending = NoPending]
    /\ UNCHANGED <<collection, bm25, builds,
                   loopVars, searchVars, chunkVars, storeVars, agentVars>>

CrawlLists ==
    {<< >>} \cup {<<u>> : u \in Urls}
        \cup {p \in {<<u, v>> : u \in Urls, v \in Urls} : p[1] # p[2]}

\* the texts of the pages of a crawl; pages outside the crawl are not fetched
Sites(all_page_urls) ==
    {f \in [Urls -> PageTexts] :
        \A u \in Urls :
            (\A k \in 1..Len(all_page_urls) : all_page_urls[k] # u)
                => f[u] = EmptyText}

BuildNext ==
    \/ \E b \in BuildSlots, urls \in CrawlLists :
           \E site \in Sites(urls) : BuildStart(b, urls, site)
    \/ \E b \in BuildSlots : ScrapeReturns(b)
    \/ \E b \in BuildSlots, v \in EmbedVersions : EmbedReturns(b, v)
    \/ \E b \in BuildSlots : EmbedFails(b)

BuildSpec == Init /\ [][BuildNext]_vars

(***************************************************************************)
(* core/tools/rag_search.py : construction of the tool and execute.  The   *)
(* tool is constructed when agent.py is imported and again at every        *)
(* retrieval of the graph; builds can complete between the construction    *)
(* of a tool and a call of its execute.                                    *)
(***************************************************************************)
\* the sites a completed build has indexed in this specification
SearchSites ==
    { [u \in Urls |-> IF u = "u1" THEN Text("A", 100, 100) ELSE EmptyText],
      [u \in Urls |-> IF u = "u1" THEN Text("B", 513, 513)
                      ELSE Text("A", 100, 100)],
      [u \in Urls |-> IF u = "u1" THEN Text("C", 925, 925)
                      ELSE Text("D", 463, 462)] }

\* the entries a page has after a pass of the page loop that indexes it
IndexPage(coll, page_url, text_content) ==
    IF StripIsEmpty(text_content) THEN coll
    ELSE LET chunks == _split_text_into_chunks(text_content)
             content_hash == _generate_content_hash(text_content)
         IN replace_page_chunks(coll, ItemsOfPage(coll, page_url) # {},
                page_url,
                [k \in 1..Len(chunks) |-> ChunkId(page_url, k - 1)],
                [k \in 1..Len(chunks) |-> <<"v1", chunks[k]>>],
                [k \in 1..Len(chunks) |->
                    [page_url |-> page_url, content_hash |-> content_hash,
                     chunk_text |-> chunks[k]]])

\* the collection after a build that crawls the pages of `site` that have
\* text and returns success
IndexOf(site) == IndexPage(IndexPage(<< >>, "u1", site["u1"]), "u2", site["u2"])

\* a whole build of `site` has returned success since the last step
BuildCompleted(site) ==
    /\ search.pc # "embed"
    /\ builds < MaxBuilds
    /\ builds' = builds + 1
    /\ collection' = IndexOf(site)
    /\ bm25' = _build_and_save_bm25_index(IndexOf(site), bm25)
    /\ search' = IdleSearch
    /\ UNCHANGED <<build, tool, loopVars, agentVars, chunkVars, storeVars>>

\* RagSearchTool(): a new instance loads the bundle that is on disk
ConstructTool ==
    /\ search.pc # "embed"
    /\ tool' = RagSearchTool(bm25)
    /\ search' = IdleSearch
    /\ UNCHANGED <<buildVars, loopVars, agentVars, chunkVars, storeVars>>

\* execute(query, n_results) is called; with an empty query _vector_search
\* returns without awaiting and the call runs to its end in one step
ExecuteStart(query, n_results) ==
    /\ tool.constructed
    /\ search.pc \in {"idle", "returned", "raised", "embed_raised"}
    /\ IF query = ""
       THEN \E doc_scores \in DocScores(tool, query) :
                search' = execute(tool, collection, query, n_results,
                                  _vector_search(query, << >>), doc_scores)
       ELSE search' = [IdleSearch EXCEPT !.pc = "embed", !.query = query,
                                         !.n_results = n_results]
    /\ UNCHANGED <<tool, buildVars, loopVars, agentVars, chunkVars, storeVars>>

\* _embed_query has returned; the query, the keyword search, the fusion and
\* the formatting follow without another await
QueryEmbedded ==
    /\ search.pc = "embed"
    /\ \E nearest \in QueryResults(collection, search.n_results * 2),
          doc_scores \in DocScores(tool, search.query) :
           search' = execute(tool, collection, search.query, search.n_results,
                             _vector_search(search.query, nearest),
                             doc_scores)
    /\ UNCHANGED <<tool, buildVars, loopVars, agentVars, chunkVars, storeVars>>

\* _embed_query raises: execute ends with the exception
QueryEmbedFails ==
    /\ search.pc = "embed"
    /\ search' = [search EXCEPT !.pc = "embed_raised", !.result = Raised]
    /\ UNCHANGED <<tool, buildVars, loopVars, agentVars, chunkVars, storeVars>>

SearchNext ==
    \/ \E site \in SearchSites : BuildCompleted(site)
    \/ ConstructTool
    \/ \E query \in Queries, n_results \in NResults :
           ExecuteStart(query, n_results)
    \/ QueryEmbedded
    \/ QueryEmbedFails

SearchSpec == Init /\ [][SearchNext]_vars

(***************************************************************************)
(* A build and retrieval queries in one event loop (main.py: /build-rag    *)
(* and /query are coroutines of the same loop).  The build steps and the   *)
(* steps of execute interleave at their awaits.                            *)
(***************************************************************************)
\* builds of u1, alone or followed by u2; u1 serves a one-chunk or a
\* two-chunk text, u2 a one-chunk text
IndexSites(all_page_urls) ==
    {f \in Sites(all_page_urls) :
        /\ f["u1"] \in {Text("A", 100, 100), Text("B", 513, 513)}
        /\ f["u2"] \in {EmptyText, Text("A", 100, 100)}}

IndexNext ==
    \/ \E b \in BuildSlots, urls \in {<<"u1">>, <<"u1", "u2">>} :
           \E site \in IndexSites(urls) : BuildStart(b, urls, site)
    \/ \E b \in BuildSlots : ScrapeReturns(b)
    \/ \E b \in BuildSlots : EmbedReturns(b, "v1")
    \/ ConstructTool
    \/ ExecuteStart("q1", 1)
    \/ QueryEmbedded

IndexSpec == Init /\ [][IndexNext]_vars

(***************************************************************************)
(* Two build invocations in one event loop (main.py: every /build-rag      *)
(* request awaits build_rag_from_path as a coroutine of the same loop).    *)
(* Each build runs its steps in order; between two steps of one build the  *)
(* other build can run any number of its own.                              *)
(***************************************************************************)
ConcurrentBuildSlots == {1, 2}

\* the state after construction, with a slot for each of the two requests
InitConcurrentBuilds ==
    /\ chat_histories = << >>
    /\ pc = [t \in Slots |-> "idle"]
    /\ state = [t \in Slots |-> << >>]
    /\ run = [t \in Slots |-> [user_query |-> None, session_id |-> None,
                               final_answer |-> None]]
    /\ log = [t \in Slots |-> EmptyLog]
    /\ turns = 0
    /\ collection = << >>
    /\ bm25 = NoBm25
    /\ build = [b \in ConcurrentBuildSlots |-> IdleBuild]
    /\ builds = 0
    /\ tool = NoTool
    /\ search = IdleSearch
    /\ agent = [a \in AgentSlots |-> IdleAgent]
    /\ chunker = IdleChunker
    /\ store_call = NoStoreCall

\* u1 serves a text of one, two or three chunks, u2 a one-chunk text or a
\* blank one
ConcurrentSites(all_page_urls) ==
    {f \in Sites(all_page_urls) :
        /\ f["u1"] \in {Text("A", 100, 100), Text("B", 513, 513),
                        Text("C", 925, 925)}
        /\ f["u2"] \in {EmptyText, Text("blank", 2, 0), Text("A", 100, 100)}}

ConcurrentNext ==
    \/ \E b \in ConcurrentBuildSlots,
          urls \in {<<"u1">>, <<"u1", "u2">>, <<"u2", "u1">>} :
           \E site \in ConcurrentSites(urls) : BuildStart(b, urls, site)
    \/ \E b \in ConcurrentBuildSlots : ScrapeReturns(b)
    \/ \E b \in ConcurrentBuildSlots : EmbedReturns(b, "v1")
    \/ \E b \in ConcurrentBuildSlots : EmbedFails(b)

ConcurrentSpec == InitConcurrentBuilds /\ [][ConcurrentNext]_vars

(***************************************************************************)
(* core/agent.py : run_agent.  A turn gives up control at its three        *)
(* awaits: the first completion, the tool's execute and the second         *)
(* completion; the code between two awaits is one step.                    *)
(***************************************************************************)
\* variant: the user's message is written to the session when the turn starts
RunAgentStart_writes_question(a, user_query, session_id) ==
    /\ agent[a].pc \in {"idle", "done", "raised", "failed"}
    /\ turns < MaxTurns
    /\ turns' = turns + 1
    /\ LET past_messages ==
               IF session_id # None
               THEN get_messages(chat_histories, session_id)
               ELSE << >>
           user_message == [role |-> "user", content |-> user_query]
       IN /\ agent' = [agent EXCEPT ![a] =
                 [IdleAgent EXCEPT
                     !.pc = "first_completion",
                     !.user_query = user_query,
                     !.session_id = session_id,
                     !.messages = <<system_prompt>> \o past_messages
                                      \o <<user_message>>,
                     !.new_messages_for_history = << >>]]
          /\ chat_histories' =
                 IF session_id # None
                 THEN add_messages(chat_histories, session_id, <<user_message>>)
                 ELSE chat_histories
    /\ UNCHANGED <<pc, state, run, log, buildVars, searchVars, chunkVars,
                   storeVars>>

\* lines 28-61: the message list and the list of the turn's new messages
RunAgentStart(a, user_query, session_id) ==
    /\ agent[a].pc \in {"idle", "done", "raised", "failed"}
    /\ turns < MaxTurns
    /\ turns' = turns + 1
    /\ LET past_messages ==
               IF session_id # None
               THEN get_messages(chat_histories, session_id)
               ELSE << >>
           user_message == [role |-> "user", content |-> user_query]
       IN agent' = [agent EXCEPT ![a] =
              [IdleAgent EXCEPT
                  !.pc = "first_completion",
                  !.user_query = user_query,
                  !.session_id = session_id,
                  !.messages = <<system_prompt>> \o past_messages
                                   \o <<user_message>>,
                  !.new_messages_for_history = <<user_message>>]]
    /\ UNCHANGED <<chat_histories, pc, state, run, log,
                   buildVars, searchVars, chunkVars, storeVars>>

\* variant: the session's list is replaced by the turn's own snapshot of it
\* followed by the turn's new messages
ReturnAnswer_from_snapshot(a, rec, final_answer) ==
    /\ agent' = [agent EXCEPT ![a] =
                    [rec EXCEPT !.pc = "done", !.final_answer = final_answer]]
    /\ chat_histories' =
           IF rec.session_id # None
           THEN [s \in (DOMAIN chat_histories) \cup {rec.session_id} |->
                    IF s = rec.session_id
                    THEN SubSeq(rec.messages, 2, Len(rec.messages) - 1)
                             \o rec.new_messages_for_history
                    ELSE chat_histories[s]]
           ELSE chat_histories

\* lines 142-149: the history write and the return of the answer
ReturnAnswer(a, rec, final_answer) ==
    /\ agent' = [agent EXCEPT ![a] =
                    [rec EXCEPT !.pc = "done", !.final_answer = final_answer]]
    /\ chat_histories' =
           IF rec.session_id # None
           THEN add_messages(chat_histories, rec.session_id,
                             rec.new_messages_for_history)
           ELSE chat_histories

\* lines 76-102 and, without a tool request, 135-149
FirstCompletionReturns(a, response_message) ==
    /\ agent[a].pc = "first_completion"
    /\ LET tool_calls == Get(response_message, "tool_calls", << >>)
           rec == [agent[a] EXCEPT
                      !.completions = @ + 1,
                      !.new_messages_for_history =
                          Append(@, response_message)]
       IN IF tool_calls = << >>
          THEN ReturnAnswer(a, rec, response_message.content)
          ELSE LET tool_call == tool_calls[1]
                   tool_name == tool_call.function.name
                   tool_args == json_loads(tool_call.function.arguments)
               IN /\ agent' = [agent EXCEPT ![a] =
                        IF tool_args.raised
                        THEN [rec EXCEPT !.pc = "raised"]
                        ELSE IF tool_to_use_of(tool_name) = None
                        THEN [rec EXCEPT
                                 !.pc = "done",
                                 !.final_answer = UnknownToolError(tool_name)]
                        ELSE IF ~BindsExecute(tool_args.value)
                        THEN [rec EXCEPT !.pc = "raised"]
                        ELSE [rec EXCEPT
                                 !.pc = "execute",
                                 !.executions = Append(@, tool_call.id)]]
                  /\ UNCHANGED chat_histories
    /\ UNCHANGED <<pc, state, run, log, turns,
                   buildVars, searchVars, chunkVars, storeVars>>

\* lines 102-126: the tool message and the messages of the second call
ToolReturns(a, tool_output) ==
    /\ agent[a].pc = "execute"
    /\ LET response_message == agent[a].new_messages_for_history[2]
           tool_call == response_message.tool_calls[1]
           tool_message == [tool_call_id |-> tool_call.id, role |-> "tool",
                            name |-> tool_call.function.name,
                            content |-> tool_output]
       IN agent' = [agent EXCEPT ![a] =
              [@ EXCEPT
                  !.pc = "second_completion",
                  !.new_messages_for_history = Append(@, tool_message),
                  !.messages_for_second_call =
                      agent[a].messages
                          \o <<response_message, tool_message>>]]
    /\ UNCHANGED <<chat_histories, pc, state, run, log, turns, buildVars,
                   searchVars, chunkVars, storeVars>>

\* lines 126-149
SecondCompletionReturns(a, content) ==
    /\ agent[a].pc = "second_completion"
    /\ LET final_message == [role |-> "assistant", content |-> content]
           rec == [agent[a] EXCEPT
                      !.completions = @ + 1,
                      !.new_messages_for_history = Append(@, final_message)]
       IN ReturnAnswer(a, rec, content)
    /\ UNCHANGED <<pc, state, run, log, turns,
                   buildVars, searchVars, chunkVars, storeVars>>

\* an awaited call raises: the exception leaves run_agent
AgentCallFails(a) ==
    /\ agent[a].pc \in {"first_completion", "execute", "second_completion"}
    /\ agent' = [agent EXCEPT ![a].pc = "failed"]
    /\ UNCHANGED <<loopVars, buildVars, searchVars, chunkVars, storeVars>>

AgentStep(a) ==
    \/ \E m \in FirstResponses : FirstCompletionReturns(a, m)
    \/ \E o \in ToolOutputs : ToolReturns(a, o)
    \/ \E c \in Answers : SecondCompletionReturns(a, c)
    \/ AgentCallFails(a)

AgentNext ==
    \/ \E a \in AgentSlots, q \in AgentQueries, sid \in SessionIds \cup {None} :
           RunAgentStart(a, q, sid)
    \/ \E a \in AgentSlots : AgentStep(a)

AgentSpec == Init /\ [][AgentNext]_vars

(***************************************************************************)
(* Turns of both agents in one event loop.  The store is the process-wide  *)
(* _chat_histories of core/history.py, so turns of run_agent and of        *)
(* run_langgraph_agent on one session id read and extend the same list.    *)
(***************************************************************************)
Digits == <<"01", "02", "03", "04", "05", "06", "07", "08", "09", "10", "11">>

\* session s1 after k earlier run_agent turns that requested no tool
PastTurns(k) ==
    [s \in {"s1"} |->
        [i \in 1..(2 * k) |->
            IF i % 2 = 1
            THEN [role |-> "user", content |-> "q" \o Digits[(i + 1) \div 2]]
            ELSE [role |-> "assistant", content |-> "a" \o Digits[i \div 2]]]]

\* an empty store, and stores holding 20 and 22 messages
StoredHistories == {<< >>, PastTurns(10), PastTurns(11)}

InitTurns == \E h \in StoredHistories : InitWith(h)

PlainResponse == [role |-> "assistant", content |-> "a1"]

SearchRequest ==
    [role |-> "assistant", content |-> None,
     tool_calls |->
         <<ToolCall("c1", "hybrid_rag_search_tool", "{\"query\": \"q1\"}")>>]

TurnsNext ==
    \/ \E t \in Slots, sid \in {"s1", None} : StartTurn(t, "q1", sid)
    \/ \E t \in Slots : ClassifyTopic(t, <<"n", "o">>)
    \/ \E t \in Slots : Retrieve(t, "e1")
    \/ \E t \in Slots, c \in Answers : Generate(t, c)
    \/ \E t \in Slots, reply \in {<<"y", "e", "s">>, <<"n", "o">>} :
           Grade(t, reply)
    \/ \E t \in Slots : Rewrite(t, "r1")
    \/ \E t \in Slots : Terminate(t)
    \/ \E a \in AgentSlots, q \in AgentQueries : RunAgentStart(a, q, "s1")
    \/ \E a \in AgentSlots, m \in {PlainResponse, SearchRequest} :
           FirstCompletionReturns(a, m)
    \/ \E a \in AgentSlots : ToolReturns(a, <<"e1", 2>>)
    \/ \E a \in AgentSlots : SecondCompletionReturns(a, "a2")

TurnsSpec == InitTurns /\ [][TurnsNext]_vars

\* the same turns, any awaited collaborator call of which can raise
FailuresNext ==
    \/ TurnsNext
    \/ \E t \in Slots : CollaboratorFails(t)
    \/ \E a \in AgentSlots : AgentCallFails(a)

FailuresSpec == InitTurns /\ [][FailuresNext]_vars

(***************************************************************************)
(* core/history.py : the calls of InMemoryChatHistory on a store of two    *)
(* session ids.                                                            *)
(***************************************************************************)
MaxCalls == 3          \* calls of the store in one behaviour

StoreSessions == {"s1", "s2"}

\* the message lists add_messages is called with
StoreMessages ==
    { << >>,
      << [role |-> "user", content |-> "q2"] >>,
      << [role |-> "user", content |-> "q1"],
         [role |-> "assistant", content |-> "a1"] >> }

\* the stores the calls start from: no session, one session, two sessions
InitialStores ==
    { << >>,
      [s \in {"s1"} |-> << [role |-> "user", content |-> "q1"],
                           [role |-> "assistant", content |-> "a1"] >>],
      [s \in StoreSessions |->
          IF s = "s1"
          THEN << [role |-> "user", content |-> "q1"],
                  [role |-> "assistant", content |-> "a2"] >>
          ELSE << [role |-> "user", content |-> "q2"] >>] }

InitHistory == \E h \in InitialStores : InitWith(h)

StoreCall(op, session_id, result) ==
    [n |-> store_call.n + 1, op |-> op, session_id |-> session_id,
     result |-> result]

\* history.add_messages(session_id, messages)
AddMessages(session_id, messages) ==
    /\ store_call.n < MaxCalls
    /\ chat_histories' = add_messages(chat_histories, session_id, messages)
    /\ store_call' = StoreCall("add_messages", session_id, << >>)
    /\ UNCHANGED <<pc, state, run, log, turns,
                   buildVars, searchVars, agentVars, chunkVars>>

\* history.clear(session_id)
Clear(session_id) ==
    /\ store_call.n < MaxCalls
    /\ chat_histories' = clear(chat_histories, session_id)
    /\ store_call' = StoreCall("clear", session_id, << >>)
    /\ UNCHANGED <<pc, state, run, log, turns,
                   buildVars, searchVars, agentVars, chunkVars>>

\* history.get_messages(session_id): _chat_histories.get(session_id, [])
\* reads the dict and returns a copy of the list
GetMessages(session_id) ==
    /\ store_call.n < MaxCalls
    /\ store_call' = StoreCall("get_messages", session_id,
                               get_messages(chat_histories, session_id))
    /\ UNCHANGED <<loopVars, buildVars, searchVars, agentVars, chunkVars>>

HistoryNext ==
    \/ \E sid \in StoreSessions, messages \in StoreMessages :
           AddMessages(sid, messages)
    \/ \E sid \in StoreSessions : Clear(sid)
    \/ \E sid \in StoreSessions : GetMessages(sid)

HistorySpec == InitHistory /\ [][HistoryNext]_vars

(***************************************************************************)
(* core/rag_builder.py : _split_text_into_chunks as a function of the      *)
(* number of tokens, for the configured chunk size and overlap and for     *)
(* small ones.                                                             *)
(***************************************************************************)
\* (size, overlap) with overlap < size: the configuration of the module and
\* every small one
ChunkConfigs ==
    {<<CHUNK_SIZE, CHUNK_OVERLAP>>}
        \cup {<<size, overlap>> \in (1..MaxChunkSize) \X (0..MaxChunkSize) :
                  overlap < size}

\* the token counts tried for a chunk size
TokenCounts(size) ==
    IF size = CHUNK_SIZE THEN 0..MaxTokens ELSE 0..(4 * MaxChunkSize)

SplitCalled(n, size, overlap) ==
    /\ chunker.pc \in {"idle", "returned"}
    /\ chunker' = [pc |-> "called", n |-> n, size |-> size,
                   overlap |-> overlap, chunks |-> << >>]
    /\ UNCHANGED <<loopVars, buildVars, searchVars, agentVars, storeVars>>

SplitReturns ==
    /\ chunker.pc = "called"
    /\ chunker' = [chunker EXCEPT
                      !.pc = "returned",
                      !.chunks = token_windows(chunker.n, chunker.size,
                                               chunker.overlap)]
    /\ UNCHANGED <<loopVars, buildVars, searchVars, agentVars, storeVars>>

ChunkNext ==
    \/ \E cfg \in ChunkConfigs :
           \E n \in TokenCounts(cfg[1]) : SplitCalled(n, cfg[1], cfg[2])
    \/ SplitReturns

ChunkSpec == Init /\ [][ChunkNext]_vars

(***************************************************************************)
(* Properties of the chunker.                                              *)
(***************************************************************************)
\* the number of token positions two windows have in common
Shared(c, d) == Max(0, Min(c.hi, d.hi) - Max(c.lo, d.lo))

\* chunk i (counted from 0) covers the tokens [i*(S-O), min(n, i*(S-O)+S)),
\* and two adjacent chunks share exactly O tokens, except that the pair
\* ending in the final chunk may share fewer
WindowsAsStated(n, size, overlap, chunks) ==
    /\ \A k \in 1..Len(chunks) :
           /\ chunks[k].lo = (k - 1) * (size - overlap)
           /\ chunks[k].hi = Min(n, (k - 1) * (size - overlap) + size)
    /\ \A k \in 1..(Len(chunks) - 1) :
           \/ Shared(chunks[k], chunks[k + 1]) = overlap
           \/ /\ k + 1 = Len(chunks)
              /\ Shared(chunks[k], chunks[k + 1]) < overlap

C23_ChunksCoverTokens ==
    (chunker.pc = "returned") =>
        LET n == chunker.n
            chunks == chunker.chunks
        IN /\ (Len(chunks) = 0) <=> (n = 0)
           /\ (n >= 1) => Len(chunks) >= 1
           /\ \A k \in 1..Len(chunks) :
                  /\ 0 <= chunks[k].lo /\ chunks[k].hi <= n
                  /\ chunks[k].hi - chunks[k].lo >= 1
                  /\ chunks[k].hi - chunks[k].lo <= chunker.size
           /\ \A p \in 0..(n - 1) :
                  \E k \in 1..Len(chunks) :
                      chunks[k].lo <= p /\ p < chunks[k].hi

C23_Witness ==
    /\ chunker.pc = "returned"
    /\ chunker.size = CHUNK_SIZE
    /\ chunker.n = CHUNK_SIZE + 1
    /\ Len(chunker.chunks) = 2
    /\ chunker.chunks[2].hi - chunker.chunks[2].lo = CHUNK_OVERLAP + 1

(***************************************************************************)
(* Properties of the tool-calling turn.                                    *)
(***************************************************************************)
\* the first completion of the turn, once it has returned
FirstResponse(rec) == rec.new_messages_for_history[2]

HasResponse(rec) == Len(rec.new_messages_for_history) >= 2

\* the tool calls the first completion requests
RequestsOf(rec) ==
    IF HasResponse(rec) THEN Get(FirstResponse(rec), "tool_calls", << >>)
    ELSE << >>

RequestsUnknownTool(rec) ==
    /\ RequestsOf(rec) # << >>
    /\ tool_to_use_of(RequestsOf(rec)[1].function.name) = None

RequestsRegisteredTool(rec) ==
    /\ RequestsOf(rec) # << >>
    /\ tool_to_use_of(RequestsOf(rec)[1].function.name) # None

\* the step in which the first completion of slot a returns
FirstCompletionStep(a) ==
    agent[a].pc = "first_completion" /\ agent'[a].completions = 1

\* C21: when the first completion requests a tool whose name is not in
\* AVAILABLE_TOOLS, the turn ends in that step with the unknown-tool message
\* as its answer: no tool is executed, no second completion is requested and
\* nothing is appended to the session history.
C21_UnknownToolEndsWithError ==
    [][\A a \in AgentSlots :
          (FirstCompletionStep(a) /\ RequestsUnknownTool(agent'[a])) =>
              /\ agent'[a].pc = "done"
              /\ agent'[a].final_answer =
                     UnknownToolError(RequestsOf(agent'[a])[1].function.name)
              /\ agent'[a].executions = << >>
              /\ chat_histories' = chat_histories]_vars

\* the session history after the turn of slot a has written rec's messages
GainedBy(rec) ==
    IF rec.session_id # None
    THEN chat_histories'[rec.session_id] =
             get_messages(chat_histories, rec.session_id)
                 \o rec.new_messages_for_history
    ELSE chat_histories' = chat_histories

C30_NoToolRequest(a) ==
    (FirstCompletionStep(a) /\ RequestsOf(agent'[a]) = << >>) =>
        /\ agent'[a].pc = "done"
        /\ agent'[a].final_answer = FirstResponse(agent'[a]).content
        /\ agent'[a].executions = << >>
        /\ agent'[a].new_messages_for_history =
               << [role |-> "user", content |-> agent[a].user_query],
                  [role |-> "assistant",
                   content |-> agent'[a].final_answer] >>
        /\ GainedBy(agent'[a])

C30_ToolRequest(a) ==
    /\ (FirstCompletionStep(a) /\ RequestsRegisteredTool(agent'[a])) =>
           /\ agent'[a].pc = "execute"
           /\ agent'[a].executions = <<RequestsOf(agent'[a])[1].id>>
           /\ chat_histories' = chat_histories
    /\ (agent[a].pc = "execute" /\ agent'[a].pc # "execute") =>
           agent'[a].pc \in {"second_completion", "failed"}
    /\ (agent[a].pc = "second_completion" /\ agent'[a].pc = "done") =>
           LET rec == agent'[a]
               new == rec.new_messages_for_history
           IN /\ rec.completions = 2
              /\ rec.executions = <<RequestsOf(rec)[1].id>>
              /\ Len(new) = 4
              /\ new[1] = [role |-> "user", content |-> rec.user_query]
              /\ new[2] = FirstResponse(agent[a])
              /\ new[3].role = "tool"
              /\ new[3].tool_call_id = RequestsOf(rec)[1].id
              /\ new[4] = [role |-> "assistant", content |-> rec.final_answer]
              /\ GainedBy(rec)

\* C30: a turn handles both outcomes of the first completion.  Without a
\* tool request the answer is the first completion's content, after one
\* completion, and the session gains [user, assistant].  With a request for
\* a registered tool the first request, and only it, is executed once, one
\* second completion follows whose content is the answer, and the session
\* gains [user, assistant request, tool result, final assistant].
C30_BothOutcomesHandled ==
    [][\A a \in AgentSlots : C30_NoToolRequest(a) /\ C30_ToolRequest(a)]_vars

\* block occurs in h as one contiguous run
Present(block, h) ==
    \E i \in 0..(Len(h) - Len(block)) :
        \A j \in 1..Len(block) : h[i + j] = block[j]

\* the two messages a finished AnswerLoop turn writes
LoopBlock(t) ==
    << [role |-> "user", content |-> run[t].user_query],
       [role |-> "assistant", content |-> run[t].final_answer] >>

\* a finished tool-calling turn that reached its history write
Wrote(rec) ==
    rec.pc = "done" /\ rec.session_id # None /\ ~RequestsUnknownTool(rec)

C24_BlocksPresent ==
    /\ \A a \in AgentSlots :
           Wrote(agent[a]) =>
               Present(agent[a].new_messages_for_history,
                       chat_histories[agent[a].session_id])
    /\ \A t \in Slots :
           (pc[t] = "done" /\ run[t].session_id # None) =>
               Present(LoopBlock(t), chat_histories[run[t].session_id])

C24_WriteStep ==
    /\ \A a \in AgentSlots :
           (agent[a].pc # "done" /\ Wrote(agent'[a])) => GainedBy(agent'[a])
    /\ \A t \in Slots :
           (pc[t] = "END" /\ pc'[t] = "done" /\ run[t].session_id # None) =>
               chat_histories'[run[t].session_id] =
                   get_messages(chat_histories, run[t].session_id)
                       \o LoopBlock(t)'
    /\ (chat_histories' # chat_histories) =>
           \/ \E a \in AgentSlots : agent[a].pc # "done" /\ Wrote(agent'[a])
           \/ \E t \in Slots : pc[t] = "END" /\ pc'[t] = "done"

\* C24: under every interleaving of concurrent turns on one session id, a
\* turn's messages are written as one contiguous block at the end of the
\* session's list, no other step changes the list, and the block of every
\* finished turn is in the list.
C24_AppendsContiguousNoneLost ==
    []C24_BlocksPresent /\ [][C24_WriteStep]_vars

C24_Witness ==
    \E a \in AgentSlots, b \in AgentSlots :
        /\ a # b
        /\ Wrote(agent[a]) /\ Wrote(agent[b])
        /\ agent[a].user_query # agent[b].user_query
        /\ Len(agent[a].messages) = Len(agent[b].messages)
        /\ Len(agent[a].new_messages_for_history) = 4
        /\ Len(chat_histories["s1"]) =
               (Len(agent[a].messages) - 2)
                   + Len(agent[a].new_messages_for_history)
                   + Len(agent[b].new_messages_for_history)

\* the step in which the driver of slot t loads the history and builds the
\* inputs of a new turn
StartTurnStep(t) == pc[t] # "classify_topic" /\ pc'[t] = "classify_topic"

C29_Snapshot(t) ==
    StartTurnStep(t) =>
        LET h == IF run'[t].session_id # None
                 THEN get_messages(chat_histories, run'[t].session_id)
                 ELSE << >>
            n == Min(MAX_CONVERSATION_HISTORY_MESSAGES, Len(h))
            chat_history == state'[t]["chat_history"]
        IN /\ Len(chat_history) = n
           /\ \A i \in 1..n : chat_history[i] = h[Len(h) - n + i]

C29_Frame(t) ==
    (~StartTurnStep(t) /\ "chat_history" \in DOMAIN state[t]) =>
        /\ "chat_history" \in DOMAIN state'[t]
        /\ state'[t]["chat_history"] = state[t]["chat_history"]

\* C29: the chatHistory of a turn is the last min(20, length) messages the
\* session holds when the turn starts, in stored order, and empty without a
\* session id; no later step changes it, whatever other turns append to the
\* session meanwhile.
C29_ChatHistoryIsStartSuffix ==
    [][\A t \in Slots : C29_Snapshot(t) /\ C29_Frame(t)]_vars

C29_Witness ==
    \E t \in Slots :
        /\ pc[t] = "classify_topic"
        /\ Len(state[t]["chat_history"]) = MAX_CONVERSATION_HISTORY_MESSAGES
        /\ state[t]["chat_history"][1].content = "q02"
        /\ Len(chat_histories["s1"]) >= 26

(***************************************************************************)
(* Properties of the AnswerLoop.                                           *)
(***************************************************************************)
Running(t) ==
    pc[t] \in {"classify_topic", "retrieve", "generate", "grade", "rewrite", "END"}

AllNotUseful(grades) == \A i \in 1..Len(grades) : grades[i] = "not useful"

\* C1: whatever the grades are, and provided every collaborator call
\* returns, a turn runs at most 4 retrieve/generate/grade cycles and at most
\* 3 rewrites, and a started turn reaches Terminate.
C1_CyclesBounded ==
    \A t \in Slots :
        /\ Len(log[t].evs) <= 4
        /\ Len(log[t].gens) <= 4
        /\ Len(log[t].grades) <= 4
        /\ log[t].rewrites <= 3

C1_LoopTerminates ==
    /\ []C1_CyclesBounded
    /\ \A t \in Slots : (pc[t] = "classify_topic") ~> (pc[t] = "done")

C1_Witness ==
    \E t \in Slots :
        pc[t] = "done" /\ Len(log[t].grades) = 4 /\ log[t].rewrites = 3

\* C2: after a Grade step the turn goes to Rewrite exactly when the grade is
\* not `useful` and iterations <= 3, and it terminates otherwise; a turn
\* whose first grade is `useful` ends with iterations = 1 and no Rewrite.
C2_GradeStep(t) ==
    (pc[t] = "grade" /\ pc'[t] # "grade" /\ pc'[t] # "failed") =>
        /\ pc'[t] \in {"rewrite", "END"}
        /\ (pc'[t] = "rewrite") <=>
               (state'[t]["grade"] # "useful" /\ state'[t]["iterations"] <= 3)

C2_FirstUseful(t) ==
    (pc[t] \in {"END", "done"} /\ log[t].grades[1] = "useful") =>
        /\ state[t]["iterations"] = 1
        /\ log[t].rewrites = 0
        /\ Len(log[t].grades) = 1

C2_TransitionRule ==
    /\ [][\A t \in Slots : C2_GradeStep(t)]_vars
    /\ [](\A t \in Slots : C2_FirstUseful(t))

C2_Witness ==
    \E t \in Slots :
        /\ pc[t] = "done"
        /\ log[t].grades = <<"useful">>
        /\ state[t]["iterations"] = 1

\* C3: grades not useful, not useful, not useful, useful: the turn ends with
\* iterations = 4 after exactly 3 rewrites, and the answer returned is the
\* output of the 4th Generate step.
NNNU == <<"not useful", "not useful", "not useful", "useful">>

C3_ThreeFailuresThenUseful ==
    \A t \in Slots :
        /\ (log[t].grades = NNNU) => pc[t] \in {"END", "done"}
        /\ (pc[t] = "done" /\ log[t].grades = NNNU) =>
               /\ state[t]["iterations"] = 4
               /\ log[t].rewrites = 3
               /\ Len(log[t].gens) = 4
               /\ run[t].final_answer = log[t].gens[4]

C3_Witness ==
    \E t \in Slots :
        /\ pc[t] = "done"
        /\ log[t].grades = NNNU
        /\ log[t].gens[4] # log[t].gens[3]

\* C4: when every grade of a turn is `not useful`, the turn still ends, at
\* the iteration cap and without an error outcome, and it returns the output
\* of the most recent Generate step, whose grade is `not useful`.
C4_NonConvergence ==
    \A t \in Slots :
        /\ (AllNotUseful(log[t].grades) /\ Len(log[t].grades) = 4) =>
               pc[t] \in {"END", "done"}
        /\ (pc[t] = "done" /\ AllNotUseful(log[t].grades)) =>
               /\ Len(log[t].grades) = 4
               /\ state[t]["iterations"] = 4
               /\ state[t]["grade"] = "not useful"
               /\ run[t].final_answer = log[t].gens[Len(log[t].gens)]
               /\ Len(log[t].gens) = 4

C4_Witness ==
    \E t \in Slots :
        /\ pc[t] = "done"
        /\ AllNotUseful(log[t].grades)
        /\ run[t].final_answer \in Answers

\* C5: at Terminate of a turn with a session id exactly two messages are
\* appended to that session's history, the user's original question and then
\* the final answer; without a session id the store is unchanged.  No other
\* step of a turn writes to the store.
C5_TerminateStep(t) ==
    LET sid == run[t].session_id
        old == IF sid \in DOMAIN chat_histories
               THEN chat_histories[sid] ELSE << >>
    IN IF pc[t] = "END" /\ pc'[t] = "done"
       THEN IF sid # None
            THEN /\ DOMAIN chat_histories' = (DOMAIN chat_histories) \cup {sid}
                 /\ chat_histories'[sid] =
                        old \o << [role |-> "user",
                                   content |-> run[t].user_query],
                                  [role |-> "assistant",
                                   content |-> log[t].gens[Len(log[t].gens)]] >>
                 /\ \A s \in (DOMAIN chat_histories) \ {sid} :
                        chat_histories'[s] = chat_histories[s]
            ELSE chat_histories' = chat_histories
       ELSE TRUE

C5_HistoryWriteBack ==
    [][/\ \A t \in Slots : C5_TerminateStep(t)
       /\ (pc' # pc /\ \A t \in Slots : ~(pc[t] = "END" /\ pc'[t] = "done")) =>
              chat_histories' = chat_histories]_vars

C5_Witness ==
    \E t \in Slots :
        /\ pc[t] = "done"
        /\ run[t].session_id \in DOMAIN chat_histories
        /\ Len(chat_histories[run[t].session_id]) = 4
        /\ log[t].rewrites > 0
        /\ state[t]["question"] # run[t].user_query
        /\ log[t].gens[1] # run[t].final_answer

\* C6: in every cycle of a turn, also after Rewrite steps, the Grade step
\* judges the draft against the user's original question of the turn.
C6_GradeJudgesOriginalQuestion ==
    \A t \in Slots :
        \A i \in 1..Len(log[t].judged) : log[t].judged[i] = run[t].user_query

\* C7 as stated: every Retrieve appends, so after the n-th Retrieve
\* `documents` holds the n evidence strings of the turn in retrieval order
\* and iterations = n.
C7_DocumentsAccumulate ==
    \A t \in Slots :
        Running(t) =>
            /\ Get(state[t], "documents", << >>) = log[t].evs
            /\ Get(state[t], "iterations", 0) = Len(log[t].evs)

\* C7 amended: every Retrieve replaces `documents`: after the n-th Retrieve
\* `documents` holds exactly one evidence string, that of the n-th Retrieve,
\* and iterations = n.
C7_DocumentsHoldLatestEvidence ==
    \A t \in Slots :
        Running(t) =>
            /\ Get(state[t], "documents", << >>) =
                   (IF log[t].evs = << >> THEN << >>
                    ELSE <<log[t].evs[Len(log[t].evs)]>>)
            /\ Get(state[t], "iterations", 0) = Len(log[t].evs)

C7_Witness ==
    \E t \in Slots :
        /\ pc[t] = "generate"
        /\ Len(log[t].evs) = 3
        /\ log[t].evs[1] # log[t].evs[3]
        /\ state[t]["iterations"] = 3

\* the step in which the classify node of slot t runs
ClassifyStep(t) ==
    pc[t] = "classify_topic" /\ log'[t].classified = log[t].classified + 1

C27_Once(t) ==
    /\ log[t].classified <= 1
    /\ (log[t].evs # << >>) => log[t].classified = 1

C27_Sets(t) ==
    ClassifyStep(t) =>
        /\ pc'[t] = "retrieve"
        /\ "is_new_topic" \in DOMAIN state'[t]
        /\ state'[t]["is_new_topic"] \in BOOLEAN
        /\ (state[t]["chat_history"] = << >>) =>
               state'[t]["is_new_topic"] = TRUE

C27_Frame(t) ==
    (~StartTurnStep(t) /\ "is_new_topic" \in DOMAIN state[t]) =>
        /\ "is_new_topic" \in DOMAIN state'[t]
        /\ state'[t]["is_new_topic"] = state[t]["is_new_topic"]

\* C27: ClassifyTopic runs exactly once per turn, before the first Retrieve;
\* it sets is_new_topic (to TRUE for an empty history snapshot, and for a
\* non-empty one to TRUE or FALSE by the collaborator's judgment) and hands
\* the turn to Retrieve; no later step of the turn changes is_new_topic.
C27_ClassifyOnceAndSetsTopic ==
    /\ [](\A t \in Slots : C27_Once(t))
    /\ [][\A t \in Slots : C27_Sets(t) /\ C27_Frame(t)]_vars

\* the step in which the turn of loop slot t ends with an exception
LoopTurnFails(t) == pc[t] # "failed" /\ pc'[t] = "failed"

\* the step in which the turn of agent slot a ends with an exception
AgentTurnFails(a) ==
    agent[a].pc \notin {"failed", "raised"}
        /\ agent'[a].pc \in {"failed", "raised"}

C38_Step ==
    /\ \A t \in Slots : LoopTurnFails(t) => chat_histories' = chat_histories
    /\ \A a \in AgentSlots :
           AgentTurnFails(a) => chat_histories' = chat_histories
    /\ (chat_histories' # chat_histories) =>
           \/ \E t \in Slots :
                  /\ pc[t] = "END" /\ pc'[t] = "done"
                  /\ run'[t].final_answer = state[t]["generation"]
                  /\ run[t].session_id # None
                  /\ chat_histories' =
                         add_messages(chat_histories, run[t].session_id,
                             << [role |-> "user",
                                 content |-> run[t].user_query],
                                [role |-> "assistant",
                                 content |-> run'[t].final_answer] >>)
           \/ \E a \in AgentSlots :
                  /\ agent[a].pc \in {"first_completion", "second_completion"}
                  /\ agent'[a].pc = "done"
                  /\ agent'[a].final_answer \in Answers
                  /\ GainedBy(agent'[a])

\* C38: the step in which a collaborator call of a turn fails (the
\* classification, a retrieval, a generation, a grading, a rewriting, a
\* completion or the tool's execution) leaves every session history as it
\* is, and so does every other step of a turn but its last: the history
\* changes only in the step that ends a turn with its final answer, by that
\* turn's messages being appended to its session.
C38_FailedTurnWritesNothing == [][C38_Step]_vars

C38_Witness ==
    /\ \E t \in Slots :
           /\ pc[t] = "failed"
           /\ run[t].session_id = "s1"
           /\ Len(log[t].gens) = 2
           /\ log[t].rewrites = 1
    /\ \E a \in AgentSlots :
           /\ agent[a].pc = "failed"
           /\ agent[a].session_id = "s1"
           /\ Len(agent[a].new_messages_for_history) = 3
    /\ chat_histories = << >>

(***************************************************************************)
(* Properties of the history store.                                        *)
(***************************************************************************)
\* the list stored for session s, the empty list when s is not stored
StoredFor(h, s) == IF s \in DOMAIN h THEN h[s] ELSE << >>

\* session s is stored after the step exactly if it was before, with the
\* same messages
SessionUntouched(s) ==
    /\ (s \in DOMAIN chat_histories') = (s \in DOMAIN chat_histories)
    /\ StoredFor(chat_histories', s) = StoredFor(chat_histories, s)

C39_Step ==
    (store_call'.n = store_call.n + 1) =>
        LET op == store_call'.op
            sid == store_call'.session_id
            old == StoredFor(chat_histories, sid)
        IN /\ op \in {"add_messages", "clear"} =>
                  \A s \in StoreSessions \ {sid} : SessionUntouched(s)
           /\ op = "add_messages" =>
                  /\ sid \in DOMAIN chat_histories'
                  /\ Len(chat_histories'[sid]) >= Len(old)
                  /\ SubSeq(chat_histories'[sid], 1, Len(old)) = old
           /\ (op = "get_messages" /\ sid \notin DOMAIN chat_histories) =>
                  /\ store_call'.result = << >>
                  /\ chat_histories' = chat_histories
                  /\ sid \notin DOMAIN chat_histories'

\* C39: add_messages and clear on one session id leave the list of every
\* other session id as it is (and create or remove no other session),
\* add_messages keeps the messages the session had as a prefix of its list,
\* and get_messages on a session id that is not stored returns the empty list
\* and does not create the session.
C39_StoreCallsAreLocal == [][C39_Step]_vars

C39_Witness ==
    /\ store_call.n = 3
    /\ store_call.op = "get_messages"
    /\ store_call.session_id = "s2"
    /\ store_call.result = << >>
    /\ DOMAIN chat_histories = {"s1"}
    /\ chat_histories["s1"] =
           << [role |-> "user", content |-> "q1"],
              [role |-> "assistant", content |-> "a2"],
              [role |-> "user", content |-> "q1"],
              [role |-> "assistant", content |-> "a1"] >>

(***************************************************************************)
(* Properties of the index build.                                          *)
(***************************************************************************)
UrlsIn(coll) == {coll[id].metadata.page_url : id \in DOMAIN coll}

IdsOf(coll, u) == {id \in DOMAIN coll : coll[id].metadata.page_url = u}

\* the urls indexed when the build started that its crawl does not list
Dropped(b) == UrlsIn(build[b].start) \ SetOf(build[b].all_page_urls)

Bm25Ids == IF bm25 = << >> THEN {}
           ELSE {bm25[1].corpus_ids[k] : k \in 1..Len(bm25[1].corpus_ids)}

\* C8: a build that repeats the build before it (same crawl set, every page
\* serving the same text) calls no embedding, reports processed = 0 and
\* leaves every entry of the collection (id, embedding, metadata) unchanged.
C8_IdempotentRebuild ==
    \A b \in BuildSlots :
        build[b].repeat =>
            /\ collection = build[b].start
            /\ build[b].processed_files_count = 0
            /\ build[b].pc \in {"scrape", "done"}
            /\ build[b].pc = "done" => build[b].status = "success"

C8_Witness ==
    \E b \in BuildSlots :
        /\ build[b].repeat
        /\ build[b].pc = "done"
        /\ Len(build[b].all_page_urls) = 2
        /\ \A u \in Urls : ~StripIsEmpty(build[b].site[u])
        /\ \A u \in Urls : Cardinality(IdsOf(collection, u)) >= 2
        /\ build[b].skipped_files_count = 2

\* C9 as stated: after a build, no url that was indexed and is absent from
\* the crawl set has a chunk in the collection or an id in the bundle.
C9_AbsentUrlsRemovedEverywhere ==
    \A b \in BuildSlots :
        build[b].pc = "done" =>
            \A u \in Dropped(b) :
                /\ IdsOf(collection, u) = {}
                /\ \A id \in Bm25Ids : id.page_url # u

\* C9 amended: when the crawl set is not empty, from the deletion step of the
\* build on no chunk of a url that was indexed and is absent from the crawl
\* set is in the collection, and a bundle the build's rebuild writes lists no
\* id of such a chunk.
C9_AbsentUrlsRemoved ==
    \A b \in BuildSlots :
        (build[b].pc \in {"scrape", "embed", "done", "raised"}
            /\ build[b].all_page_urls # << >>) =>
            \A u \in Dropped(b) :
                /\ IdsOf(collection, u) = {}
                /\ (build[b].pc = "done" /\ build[b].wrote) =>
                       \A id \in Bm25Ids : id.page_url # u

C9_Witness ==
    \E b \in BuildSlots :
        /\ build[b].pc = "done"
        /\ build[b].wrote
        /\ \E u \in Dropped(b) :
               /\ Cardinality(IdsOf(build[b].start, u)) >= 2
               /\ \E k \in 1..Len(build[b].startBm25[1].corpus_ids) :
                      build[b].startBm25[1].corpus_ids[k].page_url = u

\* C10: when a crawled page's text differs from the indexed version, after
\* the build the collection holds for that url exactly the chunks of the new
\* text (ids url#0 .. url#(n-1), the new hash, the new windows) and none of
\* the old ones, whether the page got fewer or more chunks.
WindowsOf(text) ==
    LET step == CHUNK_SIZE - CHUNK_OVERLAP
        count == IF text.n % step = 0 THEN text.n \div step
                 ELSE (text.n \div step) + 1
    IN [k \in 0..(count - 1) |->
           [tag |-> text.tag, lo |-> k * step,
            hi |-> IF k * step + CHUNK_SIZE < text.n
                   THEN k * step + CHUNK_SIZE ELSE text.n,
            wsFrom |-> text.wsFrom]]

PageChanged(b, u) ==
    /\ \E k \in 1..Len(build[b].all_page_urls) : build[b].all_page_urls[k] = u
    /\ ~StripIsEmpty(build[b].site[u])
    /\ IdsOf(build[b].start, u) # {}
    /\ \A id \in IdsOf(build[b].start, u) :
           build[b].start[id].metadata.content_hash # <<"sha256", build[b].site[u]>>

HoldsExactly(coll, u, text) ==
    LET w == WindowsOf(text)
    IN /\ IdsOf(coll, u) = {[page_url |-> u, seq |-> k] : k \in DOMAIN w}
       /\ \A k \in DOMAIN w :
              LET item == coll[[page_url |-> u, seq |-> k]]
              IN /\ item.metadata.chunk_text = w[k]
                 /\ item.metadata.content_hash = <<"sha256", text>>
                 /\ item.metadata.page_url = u
                 /\ item.embedding[2] = w[k]

C10_ChangedPageReplaced ==
    \A b \in BuildSlots :
        (build[b].pc = "done" /\ build[b].status = "success") =>
            \A u \in Urls :
                PageChanged(b, u) => HoldsExactly(collection, u, build[b].site[u])

C10_Witness ==
    \E b \in BuildSlots :
        /\ build[b].pc = "done"
        /\ build[b].status = "success"
        /\ PageChanged(b, "u1")
        /\ PageChanged(b, "u2")
        /\ Cardinality(IdsOf(build[b].start, "u1"))
               > Cardinality(IdsOf(collection, "u1"))
        /\ Cardinality(IdsOf(build[b].start, "u2"))
               < Cardinality(IdsOf(collection, "u2"))

\* C11: in every state of the collection that builds run one after the other
\* reach, all chunks that share a page_url carry the same content_hash.
C11_SameUrlSameHash ==
    \A id1 \in DOMAIN collection, id2 \in DOMAIN collection :
        collection[id1].metadata.page_url = collection[id2].metadata.page_url
            => collection[id1].metadata.content_hash
                   = collection[id2].metadata.content_hash

C11_Witness ==
    \E b \in BuildSlots :
        /\ build[b].pc = "done"
        /\ build[b].status = "success"
        /\ PageChanged(b, "u1")
        /\ Cardinality(IdsOf(build[b].start, "u1")) = 3
        /\ Cardinality(IdsOf(collection, "u1")) = 2
        /\ Cardinality(IdsOf(collection, "u2")) >= 2

\* C12 as stated: when the fetch or the embedding of one page fails, the
\* build goes on: the step that ends the work on a page moves to the next
\* crawled url or, after the last one, to the BM25 rebuild and the success
\* report.
C12_PageFailureDoesNotAbort ==
    [][\A b \in BuildSlots :
          (build[b].pc \in {"scrape", "embed"} /\ build'[b] # build[b]) =>
              \/ /\ build'[b].pc = "embed"
                 /\ build'[b].i = build[b].i
              \/ /\ build'[b].pc = "scrape"
                 /\ build'[b].i = build[b].i + 1
              \/ /\ build'[b].pc = "done"
                 /\ build'[b].status = "success"
                 /\ build[b].i = Len(build[b].all_page_urls)]_vars

\* the crawled urls of build b whose fetched text is empty or whitespace
BlankPages(b) ==
    {k \in 1..Len(build[b].all_page_urls) :
        StripIsEmpty(build[b].site[build[b].all_page_urls[k]])}

\* C13 as stated: a crawled url whose fetched text is empty or
\* whitespace-only is skipped (nothing of it is indexed) and is counted in
\* the skipped total the build reports.
C13_BlankPageSkippedAndCounted ==
    \A b \in BuildSlots :
        (build[b].pc = "done" /\ build[b].status = "success") =>
            /\ \A k \in BlankPages(b) :
                   IdsOf(collection, build[b].all_page_urls[k])
                       \subseteq DOMAIN build[b].start
            /\ build[b].skipped_files_count >= Cardinality(BlankPages(b))

\* C14: when the crawl yields no url, the build returns status error and
\* leaves the collection and the BM25 bundle on disk as they were: no chunk
\* is deleted although every indexed url is absent from the crawl.
C14_EmptyCrawlChangesNothing ==
    \A b \in BuildSlots :
        (build[b].pc # "idle" /\ build[b].all_page_urls = << >>) =>
            /\ build[b].pc = "done"
            /\ build[b].status = "error"
            /\ collection = build[b].start
            /\ bm25 = build[b].startBm25

C14_Witness ==
    \E b \in BuildSlots :
        /\ build[b].pc = "done"
        /\ build[b].status = "error"
        /\ build[b].all_page_urls = << >>
        /\ UrlsIn(collection) = Urls
        /\ bm25 # NoBm25

\* C15: when the collection holds no chunk at the rebuild step, or no chunk
\* whose text is non-empty after trimming, the rebuild writes nothing: the
\* bundle on disk, or its absence, is as it was when the build started, and
\* the build returns success.
NoChunkWithText(coll) ==
    \A id \in DOMAIN coll :
        ChunkIsEmpty(StripChunk(coll[id].metadata.chunk_text))

C15_EmptyRebuildChangesNothing ==
    \A b \in BuildSlots :
        (build[b].pc = "done" /\ build[b].all_page_urls # << >>
            /\ NoChunkWithText(collection)) =>
            /\ build[b].status = "success"
            /\ bm25 = build[b].startBm25

C15_Witness ==
    \E b \in BuildSlots :
        /\ build[b].pc = "done"
        /\ build[b].status = "success"
        /\ DOMAIN collection = {}
        /\ DOMAIN build[b].start # {}
        /\ bm25 # NoBm25
        /\ bm25 = build[b].startBm25

\* C16: after every rebuild that writes, the bundle's id list and text list
\* have the same length, position k of both refers to the same chunk (the
\* text is the trimmed text the collection stores under the id), no id is
\* listed twice, and the ids are exactly those of the chunks of the
\* collection whose text is non-empty after trimming.
C16_BundleAlignedWithCollection ==
    \A b \in BuildSlots :
        (build[b].pc = "done" /\ build[b].status = "success"
            /\ build[b].wrote) =>
            /\ bm25 # NoBm25
            /\ LET corpus_ids == bm25[1].corpus_ids
                   corpus_chunks == bm25[1].corpus_chunks
               IN /\ Len(corpus_ids) = Len(corpus_chunks)
                  /\ \A k \in 1..Len(corpus_ids) :
                         /\ corpus_ids[k] \in DOMAIN collection
                         /\ corpus_chunks[k] =
                                StripChunk(collection[corpus_ids[k]]
                                               .metadata.chunk_text)
                  /\ Cardinality(SetOf(corpus_ids)) = Len(corpus_ids)
                  /\ SetOf(corpus_ids) =
                         {id \in DOMAIN collection :
                             ~ChunkIsEmpty(StripChunk(
                                 collection[id].metadata.chunk_text))}

C16_Witness ==
    \E b \in BuildSlots :
        /\ build[b].pc = "done"
        /\ build[b].wrote
        /\ Len(bm25[1].corpus_ids) >= 3
        /\ \E id \in DOMAIN collection :
               /\ ChunkIsEmpty(StripChunk(collection[id].metadata.chunk_text))
               /\ \E other \in SetOf(bm25[1].corpus_ids) :
                      IdBefore(id, other)

\* the step in which build b reaches line 143, _build_and_save_bm25_index()
RebuildStep(b) ==
    build[b].pc \in {"scrape", "embed"} /\ build'[b].pc = "done"

\* C26: the rebuild of a build runs in the step that finishes the page
\* update of its last crawled url, after the updates of all the others, and
\* reads the collection as that update leaves it; the bundle is written at
\* no other step, and the build changes the collection no more after it.
C26_RebuildAfterAllPageUpdates ==
    [][/\ \A b \in BuildSlots :
              /\ RebuildStep(b) =>
                     /\ build[b].i = Len(build[b].all_page_urls)
                     /\ build'[b].pending = NoPending
                     /\ bm25' = _build_and_save_bm25_index(collection', bm25)
              /\ (build[b].pc = "done" /\ build'[b] = build[b]) =>
                     collection' = collection
       /\ (bm25' # bm25) => \E b \in BuildSlots : RebuildStep(b)]_vars

C26_Witness ==
    \E b \in BuildSlots :
        /\ build[b].pc = "done" /\ build[b].status = "success"
        /\ Len(build[b].all_page_urls) = 2
        /\ build[b].processed_files_count = 2
        /\ build[b].wrote
        /\ \A k \in 1..2 :
               /\ IdsOf(collection, build[b].all_page_urls[k]) # {}
               /\ IdsOf(collection, build[b].all_page_urls[k]) \subseteq Bm25Ids

\* the step in which execute reads the collection: collection.query and
\* collection.get follow the awaited query embedding without another await
QueryReadStep == search.pc = "embed" /\ search'.pc \in {"returned", "raised"}

\* coll holds the chunks of u exactly as build b found them at its start
HoldsOld(coll, b, u) ==
    /\ IdsOf(coll, u) = IdsOf(build[b].start, u)
    /\ \A id \in IdsOf(coll, u) : coll[id] = build[b].start[id]

\* C25: a query that reads the collection while a build is under way finds
\* every changed page of that build either with its old chunks or with its
\* new chunks, never with the old ones deleted and the new ones missing.
C25_NoHalfUpdatedPageObserved ==
    [][QueryReadStep =>
           \A b \in BuildSlots, u \in Urls :
               (build[b].pc \in {"scrape", "embed"} /\ PageChanged(b, u)) =>
                   \/ HoldsOld(collection, b, u)
                   \/ HoldsExactly(collection, u, build[b].site[u])]_vars

C25_Witness ==
    \E b \in BuildSlots :
        /\ build[b].pc \in {"scrape", "embed"}
        /\ build[b].i = 2
        /\ PageChanged(b, "u1")
        /\ IdsOf(build[b].start, "u1") = {ChunkId("u1", 0)}
        /\ search.pc = "returned"
        /\ \E k \in 1..Len(search.final_doc_ids) :
               search.final_doc_ids[k] = ChunkId("u1", 1)

\* C31: in every state of the collection that builds run one after the other
\* reach, the ids of the chunks of each page_url are url#0 .. url#(n-1) for
\* the number n >= 1 of chunks of the version of the page that is indexed: no
\* sequence number is missing and no id is left over from an earlier version
\* of the page that had more chunks.
C31_IdsContiguousFromZero ==
    \A u \in UrlsIn(collection) :
        /\ ChunkId(u, 0) \in DOMAIN collection
        /\ LET version == collection[ChunkId(u, 0)].metadata.content_hash[2]
               n == Cardinality(DOMAIN WindowsOf(version))
           IN /\ n >= 1
              /\ IdsOf(collection, u) = {ChunkId(u, k) : k \in 0..(n - 1)}

C31_Witness ==
    \E b \in BuildSlots :
        /\ build[b].pc = "done"
        /\ build[b].status = "success"
        /\ IdsOf(build[b].start, "u2")
               = {ChunkId("u2", 0), ChunkId("u2", 1), ChunkId("u2", 2)}
        /\ PageChanged(b, "u2")
        /\ IdsOf(collection, "u2") = {ChunkId("u2", 0)}
        /\ Cardinality(IdsOf(collection, "u1")) = 2

\* C32 as stated: under every interleaving of two builds that run in one
\* event loop and crawl the same url with different text, in every state of
\* the collection all chunks of a page_url carry one content_hash.
C32_ConcurrentBuildsSameHash ==
    \A u \in Urls :
        \A id \in IdsOf(collection, u), other \in IdsOf(collection, u) :
            collection[id].metadata.content_hash
                = collection[other].metadata.content_hash

\* C33 as stated: after every build that returns success, every id the
\* bundle on disk lists is the id of a chunk of the collection.
C33_BundleIdsInCollection ==
    \A b \in BuildSlots :
        (build[b].pc = "done" /\ build[b].status = "success") =>
            Bm25Ids \subseteq DOMAIN collection

\* C33 amended: after every build that returns success and whose rebuild
\* found a chunk with text (so that it wrote the bundle), every id the bundle
\* on disk lists is the id of a chunk of the collection.
C33_WrittenBundleIdsInCollection ==
    \A b \in BuildSlots :
        (build[b].pc = "done" /\ build[b].status = "success"
            /\ build[b].wrote) =>
            /\ bm25 # NoBm25
            /\ Bm25Ids \subseteq DOMAIN collection

C33_Witness ==
    \E b \in BuildSlots :
        /\ build[b].pc = "done"
        /\ build[b].status = "success"
        /\ build[b].wrote
        /\ build[b].startBm25 # NoBm25
        /\ \E id \in SetOf(build[b].startBm25[1].corpus_ids) :
               /\ id \notin DOMAIN collection
               /\ PageChanged(b, id.page_url)
               /\ id \notin Bm25Ids

\* the url build b is working on
CurrentPage(b) == build[b].all_page_urls[build[b].i]

\* C34: while the embeddings of a page whose content changed are awaited,
\* and after the embedding call has failed for it, the collection holds the
\* chunks indexed for that page before the build, unchanged: the old chunks
\* are deleted only once the new embeddings have been obtained.
C34_EmbedFailureKeepsOldChunks ==
    \A b \in BuildSlots :
        (build[b].pc \in {"embed", "raised"}
            /\ PageChanged(b, CurrentPage(b))) =>
            HoldsOld(collection, b, CurrentPage(b))

C34_Witness ==
    \E b \in BuildSlots :
        /\ build[b].pc = "raised"
        /\ build[b].i = 2
        /\ build[b].processed_files_count = 1
        /\ PageChanged(b, CurrentPage(b))
        /\ Cardinality(IdsOf(collection, CurrentPage(b))) = 3
        /\ Cardinality(DOMAIN WindowsOf(build[b].site[CurrentPage(b)])) = 1

\* C35: a url of the crawl list whose fetch returns an empty or a
\* whitespace-only text keeps, during the build and after it, exactly the
\* entries it had in the collection when the build started: none of its
\* chunks is deleted, replaced or added.
C35_BlankPageKeepsChunks ==
    \A b \in BuildSlots :
        build[b].pc # "idle" =>
            \A k \in 1..Len(build[b].all_page_urls) :
                LET u == build[b].all_page_urls[k]
                IN build[b].site[u].wsFrom = 0 => HoldsOld(collection, b, u)

C35_Witness ==
    \E b \in BuildSlots :
        /\ build[b].pc = "done"
        /\ build[b].status = "success"
        /\ build[b].all_page_urls = <<"u1", "u2">>
        /\ build[b].site["u1"] = Text("blank", 2, 0)
        /\ Cardinality(IdsOf(build[b].start, "u1")) = 3
        /\ Cardinality(IdsOf(collection, "u1")) = 3
        /\ build[b].processed_files_count = 1

(***************************************************************************)
(* Properties of the hybrid search.                                        *)
(***************************************************************************)
IdsIn(results) == {results[r][1] : r \in 1..Len(results)}

\* 1/(60 + rank) for the 1-based rank of id in the list, 0 when it is absent
RankTerm(results, id) ==
    IF id \in IdsIn(results)
    THEN Frac(1, 60 + (CHOOSE r \in 1..Len(results) : results[r][1] = id))
    ELSE Frac(0, 1)

FusedScore(id) ==
    FracAdd(RankTerm(search.vector_results, id),
            RankTerm(search.keyword_results, id))

Candidates == IdsIn(search.vector_results) \cup IdsIn(search.keyword_results)

ScoreOf(fused_results, id) ==
    fused_results[CHOOSE j \in 1..Len(fused_results) :
                      fused_results[j][1] = id][2]

\* C18: an id at rank r1 of the vector list and rank r2 of the keyword list
\* gets a fused score strictly above the score the fusion gives it when it is
\* at rank r1 of the vector list and in no keyword list, and above the score
\* it gets when it is at rank r2 of the keyword list and in no vector list.
C18_BothListsScoreHigher ==
    search.pc = "returned" =>
        LET vector_only ==
                _reciprocal_rank_fusion(<<search.vector_results, << >> >>)
            keyword_only ==
                _reciprocal_rank_fusion(<< << >>, search.keyword_results>>)
        IN \A id \in IdsIn(search.vector_results)
                         \cap IdsIn(search.keyword_results) :
               /\ FracLess(ScoreOf(vector_only, id),
                           ScoreOf(search.fused_results, id))
               /\ FracLess(ScoreOf(keyword_only, id),
                           ScoreOf(search.fused_results, id))

C18_Witness ==
    /\ search.pc = "returned"
    /\ Len(search.vector_results) = 5
    /\ Len(search.keyword_results) = 4
    /\ search.vector_results[5][1] = search.keyword_results[1][1]
    /\ search.vector_results[1][1] = search.keyword_results[4][1]

\* C36 as stated: whatever the collection holds and whatever bundle the tool
\* has loaded (a bundle loaded before a later build deleted chunks included),
\* the document count execute returns is the number of documents the
\* evidence it returns contains.
C36_CountIsNumberOfDocuments ==
    search.pc = "returned" =>
        search.result.value.count
            = Len(search.result.value.formatted_string.docs)

\* C37: with a loaded bundle of N chunks the keyword list of a search for k
\* results holds exactly min(2k, N) entries, for the empty query and for
\* chunks that score 0 as well; the entries are distinct chunks of the
\* bundle, and the fused score of the entry at rank r is its vector term plus
\* the keyword term 1/(60 + r).
C37_KeywordListAlwaysFull ==
    (search.pc = "returned" /\ tool._bm25_index # None) =>
        LET keyword_results == search.keyword_results
            N == Len(tool._bm25_corpus_ids)
        IN /\ Len(keyword_results) = Min(2 * search.n_results, N)
           /\ \A r \in 1..Len(keyword_results) :
                  LET id == keyword_results[r][1]
                      fused == ScoreOf(search.fused_results, id)
                      stated == FracAdd(RankTerm(search.vector_results, id),
                                        Frac(1, 60 + r))
                  IN /\ id \in SetOf(tool._bm25_corpus_ids)
                     /\ \A q \in 1..Len(keyword_results) :
                            keyword_results[q][1] = id => q = r
                     /\ id \in IdsIn(search.fused_results)
                     /\ fused[1] * stated[2] = stated[1] * fused[2]

C37_Witness ==
    /\ search.pc = "returned"
    /\ search.query = "q1"
    /\ search.n_results = 1
    /\ Len(tool._bm25_corpus_ids) = 4
    /\ Len(search.keyword_results) = 2
    /\ search.keyword_results[1][2] > 0
    /\ search.keyword_results[2][2] = 0
    /\ search.keyword_results[2][1] \notin IdsIn(search.vector_results)
    /\ search.keyword_results[1][1] \in IdsIn(search.vector_results)

\* C19: with an empty corpus (no chunk in the collection, no bundle built) a
\* search with any query and k = 5 whose query embedding is delivered returns
\* the no-results string and the document count 0, and raises nothing.
C19_EmptyCorpusEmptyResult ==
    (/\ search.pc \in {"returned", "raised"}
     /\ search.n_results = 5
     /\ DOMAIN collection = {}
     /\ bm25 = NoBm25
     /\ tool._bm25_index = None) =>
        /\ search.pc = "returned"
        /\ ~search.result.raised
        /\ search.final_doc_ids = << >>
        /\ search.result.value.count = 0
        /\ search.result.value.formatted_string = NoResultsString

C19_Witness ==
    /\ search.pc = "returned"
    /\ search.query = "q1"
    /\ search.n_results = 5
    /\ DOMAIN collection = {}
    /\ bm25 = NoBm25
    /\ search.result.value.count = 0

=============================================================================
